---- MODULE Spec2Model ----
(***************************************************************************)
(* A model of the span processing and anonymization pipeline of Cloak:     *)
(* the word-preserving chunker, the fork-join parallel dispatcher, the     *)
(* multi-pass masking extractor, overlap resolution and the numbered       *)
(* redactor.  Texts are sequences of one-character strings; every offset   *)
(* is 0-based and every range half-open, as in the Python source.          *)
(***************************************************************************)
EXTENDS Integers, Sequences, FiniteSets, TLC

\* ------------------------------------------------------------------ bounds
\* longest text given to chunk_text
MaxTextLen == 5
\* largest chunk_size given to chunk_text (the smallest is -1)
MaxChunkSize == 3

\* longest text given to EntityExtractor.predict
MaxExtractLen == 2
\* most spans the labeler returns from one call
MaxFound == 2

\* longest text given to extract_entities_in_parallel
MaxParTextLen == 4
\* most spans extractor.predict returns for one chunk
MaxChunkSpans == 2
\* largest max_workers
MaxWorkers == 2

\* most spans in a list given to resolve_overlaps
MaxOverlapEntities == 3
\* largest end of a span given to resolve_overlaps
MaxOverlapEnd == 2

\* most spans in a list given to redact
MaxRedactEntities == 3
\* most redact calls on one EntityRedactor
MaxRedactCalls == 2
\* most spans in one text of a batch_redact call
MaxBatchEntities == 1

\* chunker.py line 36: the chunk size that replaces a chunk_size <= 0
DefaultChunkSize == 600
\* extractor.py line 57: the default of max_passes
DefaultMaxPasses == 2

VARIABLES
    text,          \* chunker: the text given to chunk_text
    chunk_size,    \* chunker: the chunk_size given to chunk_text
    chunks,        \* chunker: the list chunk_text returned
    valid,         \* chunker: what validate_chunks returned ("none" before)
    ck_pc,         \* chunker: "start" -> "chunked" -> "validated"
    max_passes,        \* predict: the max_passes argument
    pass_num,          \* predict: the loop variable of the pass loop
    mutable_text_list, \* predict: the working copy of the text
    processed_spans,   \* predict: the (start, end) pairs already reported
    all_entities,      \* predict: the spans found so far, then the result
    filtered_out,      \* predict: how many spans the last pass's filter dropped
    calls,             \* predict: how many times the labeler was called
    ex_pc,             \* predict: "start" -> "loop" -> "break" -> "returned"
    max_workers,       \* dispatcher: the size of the thread pool
    task,              \* dispatcher: chunk -> "queued", "running" or "done"
    predicted,         \* dispatcher: chunk -> what extractor.predict did
    futures,           \* dispatcher: chunk -> the result of its future
    collected,         \* dispatcher: the futures as_completed yielded, in order
    par_entities,      \* dispatcher: all_entities, then the returned list
    par_pc,            \* dispatcher: "start" -> "collect" -> "returned"
    ov_entities,       \* resolve_overlaps: the entities argument
    strategy,          \* resolve_overlaps: the strategy argument
    overlaps,          \* resolve_overlaps: the pairs _detect_overlaps returned
    ov_next,           \* resolve_overlaps: how many pairs the loop has handled
    to_remove,         \* resolve_overlaps: the indices marked for removal
    resolved,          \* resolve_overlaps: the returned list
    ov_pc,             \* resolve_overlaps: "start" -> "resolve" -> "returned"
    used_ids_per_label, \* redactor: upper-cased label -> the ids in use
    rd_text,            \* redact: the text argument
    rd_entities,        \* redact: the entities argument
    numbered,           \* redact: the numbered argument
    consistent_ids,     \* redact: the consistent_ids argument
    entity_to_id,       \* redact: the local map (label, text) -> id
    redaction_details,  \* redact: the 'replacements' of the result
    re_identification_map, \* redact: placeholder -> original text
    anonymized_text,    \* redact: the 'anonymized_text' of the result
    used_at_call,       \* redact: used_ids_per_label when the call began
    rd_calls,           \* redactor: how many redact calls were made
    rd_pc,              \* redactor: "ready" -> "returned" -> "ready"
    entity_id_map,      \* redactor: self.entity_id_map
    bt_texts,           \* batch_redact: the texts argument
    bt_entities,        \* batch_redact: the all_entities argument
    global_entity_map,  \* batch_redact: the pre-generated (label, text) -> id
    old_map,            \* batch_redact: the saved self.entity_id_map
    bt_results,         \* batch_redact: the results so far, then the result
    bt_pc,              \* batch_redact: "ready" -> "loop" <-> "call" -> "returned"
    issued,             \* history: the first id each (label, text) was given
                        \* by a redact call since construction or the last clear
    faker_available,    \* replacer: FAKER_AVAILABLE when it was constructed
    replacement_cache,  \* replacer: (label, text) -> (replacement, strategy)
    rp_text,            \* replace: the text argument
    rp_entities,        \* replace: the entities argument
    rp_consistency,     \* replace: consistency
    rp_custom,          \* replace: custom_strategies, label -> strategy name
    rp_todo,            \* replace: the sorted entities still to be processed
    replaced_text,      \* replace: replaced_text
    replacement_details, \* replace: replacement_details
    rp_last,            \* history: what _get_replacement did for the last span
    rp_results,         \* history: what each processed span was given
    rp_calls,           \* replacer: how many replace calls were made
    rp_pc,              \* replace: "ready" -> "loop" -> "returned" -> "ready"
    max_gap,            \* merger: self.max_gap
    merge_stats,        \* merger: self.merge_stats
    mg_text,            \* merge: the text argument
    mg_entities,        \* merge: the entities argument
    mg_merged,          \* merge: the returned list
    mg_steps,           \* history: what each turn of the loop of merge did
    mg_parts,           \* history: the scores of the spans merged into each
                        \* returned span
    mg_calls,           \* merger: how many merge calls were made
    mg_pc,              \* merge: "ready" -> "returned" -> "ready"
    min_confidence,     \* validator: self.min_confidence, in tenths
    strict_validation,  \* validator, pipeline: self.strict_validation
    validation_stats,   \* validator: self.validation_stats
    vl_text,            \* validate_entities: the text argument
    vl_entities,        \* validate_entities: the entities argument
    vl_threshold,       \* validate_entities: confidence_threshold
    validated,          \* validate_entities: the returned list
    vl_fate,            \* history: the counter each entity was counted in
    vl_calls,           \* validator: how many validate_entities calls were made
    vl_pc,              \* validate_entities: "ready" -> "returned" -> "ready"
    ch_maxsize,         \* cache: CacheManager.maxsize
    lru,                \* cache: the entries of the lru_cache, oldest first
    lru_hits,           \* cache: cache_info().hits of the lru_cache
    lru_misses,         \* cache: cache_info().misses of the lru_cache
    cache_hits,         \* cache: CacheManager.cache_hits
    cache_misses,       \* cache: CacheManager.cache_misses
    total_requests,     \* cache: CacheManager.total_requests
    th,                 \* cache: thread -> its place in predict and its locals
    ch_log,             \* history: the predict calls that returned and the
                        \* clear_cache calls, in order
    ch_calls,           \* cache: how many calls were made
    base_extractor,     \* pipeline: self.base_extractor, "None" until the
                        \* components are initialized
    use_caching,        \* pipeline: self.use_caching
    overlap_strategy,   \* pipeline: self.overlap_strategy
    pl_args,            \* extract_entities: the arguments of the call
    pl_entities,        \* extract_entities: the local entities
    pl_stages,          \* history: the stage methods the call invoked, in order
    pl_passes,          \* history: the labeler calls made for the call
    pl_result,          \* extract_entities: what the call returned or raised
    pl_calls,           \* pipeline: how many extract_entities calls were made
    pl_pc,              \* extract_entities: "ready" -> "predicting" ->
                        \* "stages" -> "returned" or "raised" -> "ready"
    ds_entity,          \* default strategy: the entity given to get_replacement
    ds_out,             \* default strategy: what get_replacement returned
    ds_pc,              \* default strategy: "start" -> "returned"
    user_replacements,  \* replace_with_user_data: the user_replacements argument
    ud_given,           \* history: the values replace_with_user_data gave with
                        \* consistency on, each with its (label, text) pair
                        \* and the user_replacements of its call
    heap,               \* span records: the dict objects, by reference
    own_op,             \* span records: the method that is given the spans
    own_input,          \* span records: the references in the list passed in
    own_before,         \* history: the records of own_input before the call
    own_output,         \* span records: the references in the returned list
    own_pc,             \* span records: "start" -> "returned"
    redact_threads,     \* concurrent redact: the locals of each thread's call
    serialized,         \* concurrent redact: the callers hold a lock of their
                        \* own around every call
    _global_redactor_instance,
                        \* concurrent redact: the global of cloak.py, 0 for
                        \* None, else a position in redactors
    redactors           \* concurrent redact: the used_ids_per_label of every
                        \* EntityRedactor constructed by the getter

ckVars == <<text, chunk_size, chunks, valid, ck_pc>>
exVars == <<max_passes, pass_num, mutable_text_list, processed_spans,
            all_entities, filtered_out, calls, ex_pc>>
parVars == <<max_workers, task, predicted, futures, collected, par_entities,
             par_pc>>
ovVars == <<ov_entities, strategy, overlaps, ov_next, to_remove, resolved, ov_pc>>
rdVars == <<used_ids_per_label, rd_text, rd_entities, numbered, consistent_ids,
            entity_to_id, redaction_details, re_identification_map,
            anonymized_text, used_at_call, rd_calls, rd_pc>>
btVars == <<entity_id_map, bt_texts, bt_entities, global_entity_map, old_map,
            bt_results, bt_pc>>
rdAll == <<rdVars, btVars, issued>>
rpVars == <<faker_available, replacement_cache, rp_text, rp_entities,
            rp_consistency, rp_custom, rp_todo, replaced_text,
            replacement_details, rp_last, rp_results, rp_calls, rp_pc>>
mgVars == <<max_gap, merge_stats, mg_text, mg_entities, mg_merged, mg_steps,
            mg_parts, mg_calls, mg_pc>>
vlVars == <<min_confidence, strict_validation, validation_stats, vl_text,
            vl_entities, vl_threshold, validated, vl_fate, vl_calls, vl_pc>>
chVars == <<ch_maxsize, lru, lru_hits, lru_misses, cache_hits, cache_misses,
            total_requests, th, ch_log, ch_calls>>
plVars == <<base_extractor, use_caching, overlap_strategy, pl_args, pl_entities,
            pl_stages, pl_passes, pl_result, pl_calls, pl_pc>>
dsVars == <<ds_entity, ds_out, ds_pc>>
udVars == <<user_replacements, ud_given>>
ownVars == <<heap, own_op, own_input, own_before, own_output, own_pc>>
ccVars == <<redact_threads, serialized, _global_redactor_instance, redactors>>
moreVars == <<dsVars, udVars, ownVars, ccVars>>
appVars == <<chVars, plVars, moreVars>>
utilVars == <<rpVars, mgVars, vlVars, appVars>>
coreVars == <<ckVars, exVars, parVars, ovVars, rdAll>>
vars == <<ckVars, exVars, parVars, ovVars, rdAll, utilVars>>

\* What the steps of one component leave alone.
notCk == <<exVars, parVars, ovVars, rdAll, utilVars>>
notEx == <<ckVars, parVars, ovVars, rdAll, utilVars>>
notPar == <<valid, ck_pc, exVars, ovVars, rdAll, utilVars>>
notOv == <<ckVars, exVars, parVars, rdAll, utilVars>>
notRd == <<ckVars, exVars, parVars, ovVars, utilVars>>
notRp == <<coreVars, mgVars, vlVars, appVars>>
notMg == <<coreVars, rpVars, vlVars, appVars>>
notVl == <<coreVars, rpVars, mgVars, appVars>>
notCh == <<coreVars, rpVars, mgVars, vlVars, plVars, moreVars>>
notDs == <<coreVars, rpVars, mgVars, vlVars, chVars, plVars, udVars, ownVars,
           ccVars>>
notOwn == <<coreVars, rpVars, mgVars, vlVars, chVars, plVars, dsVars, udVars,
            ccVars>>
notCc == <<ckVars, exVars, parVars, ovVars, used_ids_per_label, rd_text, rd_entities, numbered,
           consistent_ids, entity_to_id, redaction_details,
           re_identification_map, anonymized_text, used_at_call, rd_calls,
           rd_pc, btVars, issued, rpVars, mgVars, vlVars, chVars, plVars,
           dsVars, udVars, ownVars>>
\* replace_with_user_data has the text, the entities, the consistency flag
\* and the details of its call where replace has them.
notUd == <<faker_available, replacement_cache, rp_custom, rp_todo, rp_last,
           rp_results, coreVars, mgVars, vlVars, chVars, plVars, dsVars,
           ownVars, ccVars>>
\* extract_entities works through the extractor, the cache, the validator and
\* the merger of its pipeline; the rest it leaves alone.
notPl == <<chunk_size, chunks, valid, ck_pc, parVars, ovVars, rdAll, rpVars,
           mg_text, mg_entities, mg_merged, mg_steps, mg_parts, mg_calls, mg_pc,
           vl_text, vl_entities, vl_threshold, validated, vl_fate, vl_calls,
           vl_pc, th, ch_log, ch_calls, moreVars>>

\* The variables of a component that a specification does not run.
ChunkIdle ==
    /\ chunk_size = 0
    /\ chunks = << >>
    /\ valid = "none"
    /\ ck_pc = "idle"

ParIdle ==
    /\ max_workers = 0
    /\ task = << >>
    /\ predicted = << >>
    /\ futures = << >>
    /\ collected = << >>
    /\ par_entities = << >>
    /\ par_pc = "idle"

ExIdle ==
    /\ max_passes = 0
    /\ pass_num = 0
    /\ mutable_text_list = << >>
    /\ processed_spans = {}
    /\ all_entities = << >>
    /\ filtered_out = 0
    /\ calls = 0
    /\ ex_pc = "idle"

OvIdle ==
    /\ ov_entities = << >>
    /\ strategy = "none"
    /\ overlaps = << >>
    /\ ov_next = 0
    /\ to_remove = {}
    /\ resolved = << >>
    /\ ov_pc = "idle"

RpIdle ==
    /\ faker_available = FALSE
    /\ replacement_cache = << >>
    /\ rp_text = << >>
    /\ rp_entities = << >>
    /\ rp_consistency = FALSE
    /\ rp_custom = << >>
    /\ rp_todo = << >>
    /\ replaced_text = << >>
    /\ replacement_details = << >>
    /\ rp_last = << >>
    /\ rp_results = << >>
    /\ rp_calls = 0
    /\ rp_pc = "idle"

MgIdle ==
    /\ max_gap = 0
    /\ merge_stats = << >>
    /\ mg_text = << >>
    /\ mg_entities = << >>
    /\ mg_merged = << >>
    /\ mg_steps = << >>
    /\ mg_parts = << >>
    /\ mg_calls = 0
    /\ mg_pc = "idle"

VlIdle ==
    /\ min_confidence = 0
    /\ strict_validation = FALSE
    /\ validation_stats = << >>
    /\ vl_text = << >>
    /\ vl_entities = << >>
    /\ vl_threshold = 0
    /\ validated = << >>
    /\ vl_fate = << >>
    /\ vl_calls = 0
    /\ vl_pc = "idle"

ChIdle ==
    /\ ch_maxsize = 0
    /\ lru = << >>
    /\ lru_hits = 0
    /\ lru_misses = 0
    /\ cache_hits = 0
    /\ cache_misses = 0
    /\ total_requests = 0
    /\ th = << >>
    /\ ch_log = << >>
    /\ ch_calls = 0

PlIdle ==
    /\ base_extractor = "None"
    /\ use_caching = FALSE
    /\ overlap_strategy = "none"
    /\ pl_args = << >>
    /\ pl_entities = << >>
    /\ pl_stages = << >>
    /\ pl_passes = 0
    /\ pl_result = << >>
    /\ pl_calls = 0
    /\ pl_pc = "idle"

DsIdle ==
    /\ ds_entity = << >>
    /\ ds_out = << >>
    /\ ds_pc = "idle"

UdIdle ==
    /\ user_replacements = << >>
    /\ ud_given = {}

OwnIdle ==
    /\ heap = << >>
    /\ own_op = "none"
    /\ own_input = << >>
    /\ own_before = << >>
    /\ own_output = << >>
    /\ own_pc = "idle"

CcIdle ==
    /\ redact_threads = << >>
    /\ serialized = FALSE
    /\ _global_redactor_instance = 0
    /\ redactors = << >>

MoreIdle == DsIdle /\ UdIdle /\ OwnIdle /\ CcIdle

AppIdle == ChIdle /\ PlIdle /\ MoreIdle

UtilIdle == RpIdle /\ MgIdle /\ VlIdle /\ AppIdle

RdIdle ==
    /\ used_ids_per_label = << >>
    /\ rd_text = << >>
    /\ rd_entities = << >>
    /\ numbered = FALSE
    /\ consistent_ids = FALSE
    /\ entity_to_id = << >>
    /\ redaction_details = << >>
    /\ re_identification_map = << >>
    /\ anonymized_text = << >>
    /\ used_at_call = << >>
    /\ rd_calls = 0
    /\ rd_pc = "idle"
    /\ entity_id_map = << >>
    /\ bt_texts = << >>
    /\ bt_entities = << >>
    /\ global_entity_map = << >>
    /\ old_map = << >>
    /\ bt_results = << >>
    /\ bt_pc = "idle"
    /\ issued = << >>

\* No component of the extraction pipeline or of the redactor runs.
CoreIdle == text = << >> /\ ChunkIdle /\ ExIdle /\ ParIdle /\ OvIdle /\ RdIdle

\* ------------------------------------------------------- Python primitives
\* The characters str.isspace() and the regex class \s accept, as far as the
\* model's alphabet goes.
Whitespace == {" ", "\n"}
IsSpace(c) == c \in Whitespace

Letters == {"a", "b"}
Alphabet == Letters \cup Whitespace

\* All sequences over S of length 0..n.
SeqsUpTo(S, n) == UNION {[1..k -> S] : k \in 0..n}

Min(S) == CHOOSE x \in S : \A y \in S : x <= y
Max(S) == CHOOSE x \in S : \A y \in S : x >= y

\* Python's clamping of a slice bound i for a sequence of length n.
PyIndex(n, i) ==
    IF i < 0 THEN (IF n + i < 0 THEN 0 ELSE n + i)
    ELSE (IF i > n THEN n ELSE i)

\* Python's s[a:b].
PySlice(s, a, b) ==
    LET lo == PyIndex(Len(s), a)
        hi == PyIndex(Len(s), b)
    IN  IF lo >= hi THEN << >> ELSE SubSeq(s, lo + 1, hi)

\* str.strip(): leading and trailing whitespace removed.
strip(s) ==
    LET keep == {i \in 1..Len(s) : ~IsSpace(s[i])}
    IN  IF keep = {} THEN << >> ELSE SubSeq(s, Min(keep), Max(keep))

\* ----------------------------------------------------------------- chunker
\* The end of the match of \S+ that starts at 0-based position i.
WordEnd(s, i) ==
    Min({e \in (i + 1)..Len(s) : e = Len(s) \/ IsSpace(s[e + 1])})

\* [m.span() for m in re.finditer(r"\S+", text)], scanning from position i.
RECURSIVE ScanWords(_, _, _)
ScanWords(s, i, acc) ==
    IF i >= Len(s) THEN acc
    ELSE IF IsSpace(s[i + 1]) THEN ScanWords(s, i + 1, acc)
    ELSE ScanWords(s, WordEnd(s, i), Append(acc, <<i, WordEnd(s, i)>>))

word_spans(s) == ScanWords(s, 0, << >>)

\* " ".join of the words of a group: what a chunker that re-joins the words
\* instead of slicing the original text would return.
RECURSIVE JoinWords(_, _)
JoinWords(s, spans) ==
    IF spans = << >> THEN << >>
    ELSE IF Len(spans) = 1 THEN PySlice(s, spans[1][1], spans[1][2])
    ELSE PySlice(s, spans[1][1], spans[1][2]) \o <<" ">> \o JoinWords(s, Tail(spans))

chunk_str_joined(s, group) == JoinWords(s, group)

\* chunk_str = text[start_char : end_char] for one group of word spans.
chunk_str(s, group) ==
    PySlice(s, group[1][1], group[Len(group)][2])

\* word_spans[i : i + chunk_size + 1]: a group that takes one word too many.
chunk_spans_one_more(spans, i, size) == PySlice(spans, i, i + size + 1)

\* chunk_spans = word_spans[i : i + chunk_size]
chunk_spans(spans, i, size) == PySlice(spans, i, i + size)

\* The chunk size chunk_text works with.
effective_chunk_size(size) == IF size <= 0 THEN DefaultChunkSize ELSE size

chunk_text(s, size) ==
    IF s = << >> \/ strip(s) = << >> THEN << >>
    ELSE
        LET eff == effective_chunk_size(size)
            ws == word_spans(s)
            \* for i in range(0, len(word_spans), chunk_size)
            starts == {i \in 0..(Len(ws) - 1) : i % eff = 0}
        IN  IF ws = << >> THEN << >>
            ELSE [k \in 1..Cardinality(starts) |->
                    LET group == chunk_spans(ws, (k - 1) * eff, eff)
                    IN  <<chunk_str(s, group), group[1][1]>>]

validate_chunks(cs, original_text) ==
    IF cs = << >> \/ original_text = << >> THEN FALSE
    ELSE \A k \in 1..Len(cs) :
            LET offset == cs[k][2]
                expected_end == cs[k][2] + Len(cs[k][1])
            IN  /\ ~(offset < 0 \/ offset >= Len(original_text))
                /\ ~(expected_end > Len(original_text))
                /\ PySlice(original_text, offset, expected_end) = cs[k][1]

ChunkSizes == (0 - 1)..MaxChunkSize

ChunkInit ==
    /\ text \in SeqsUpTo(Alphabet, MaxTextLen)
    /\ chunk_size \in ChunkSizes
    /\ chunks = << >>
    /\ valid = "none"
    /\ ck_pc = "start"
    /\ ExIdle /\ ParIdle /\ OvIdle /\ RdIdle /\ UtilIdle

\* chunks = chunk_text(text, chunk_size)
ChunkText ==
    /\ ck_pc = "start"
    /\ chunks' = chunk_text(text, chunk_size)
    /\ ck_pc' = "chunked"
    /\ UNCHANGED <<text, chunk_size, valid, notCk>>

\* validate_chunks(chunks, text)
ValidateChunks ==
    /\ ck_pc = "chunked"
    /\ valid' = validate_chunks(chunks, text)
    /\ ck_pc' = "validated"
    /\ UNCHANGED <<text, chunk_size, chunks, notCk>>

ChunkNext == ChunkText \/ ValidateChunks

SpecChunk == ChunkInit /\ [][ChunkNext]_vars

\* ---------------------------------------------------- chunker: properties
HasWord(s) == \E i \in 1..Len(s) : ~IsSpace(s[i])

\* 0-based position i is the first character of a word of s.
IsWordStart(s, i) ==
    /\ i >= 0 /\ i < Len(s)
    /\ ~IsSpace(s[i + 1])
    /\ (i = 0 \/ IsSpace(s[i]))

\* e is the 0-based exclusive end of a word of s.
IsWordEnd(s, e) ==
    /\ e >= 1 /\ e <= Len(s)
    /\ ~IsSpace(s[e])
    /\ (e = Len(s) \/ IsSpace(s[e + 1]))

ChunkLo(k) == chunks[k][2]
ChunkHi(k) == chunks[k][2] + Len(chunks[k][1])
WordsOfChunk(k) == {i \in ChunkLo(k)..(ChunkHi(k) - 1) : IsWordStart(text, i)}
Chunked == ck_pc \in {"chunked", "validated"}

\* C1: every (chunk_str, offset) chunk_text returns is the text at
\* [offset, offset + len(chunk_str)), and validate_chunks accepts the chunks
\* of every text that holds a word.
RoundTripChunking ==
    /\ Chunked =>
         \A k \in 1..Len(chunks) :
            /\ ChunkLo(k) >= 0
            /\ ChunkHi(k) <= Len(text)
            /\ \A j \in 1..Len(chunks[k][1]) : chunks[k][1][j] = text[ChunkLo(k) + j]
    /\ (ck_pc = "validated" /\ HasWord(text)) => valid = TRUE

\* Validated chunks, one of which starts after the text's start and keeps
\* whitespace between its words.
RoundTripWitness ==
    /\ ck_pc = "validated"
    /\ valid = TRUE
    /\ \E k \in 1..Len(chunks) :
          /\ ChunkLo(k) > 0
          /\ \E j \in 1..Len(chunks[k][1]) : IsSpace(chunks[k][1][j])

\* What C2 says of the chunks, with at most maxWords words in a chunk.
WordAlignedChunks(maxWords) ==
    Chunked =>
        /\ \A k \in 1..Len(chunks) :
              /\ IsWordStart(text, ChunkLo(k))
              /\ IsWordEnd(text, ChunkHi(k))
              /\ Cardinality(WordsOfChunk(k)) <= maxWords
        /\ \A k \in 1..(Len(chunks) - 1) :
              /\ ChunkLo(k) < ChunkLo(k + 1)
              /\ ChunkHi(k) <= ChunkLo(k + 1)
        /\ \A i \in 0..(Len(text) - 1) :
              IsWordStart(text, i) =>
                 Cardinality({k \in 1..Len(chunks) :
                                /\ ChunkLo(k) <= i
                                /\ Min({e \in (i + 1)..Len(text) : IsWordEnd(text, e)})
                                      <= ChunkHi(k)}) = 1

\* C2 as stated: a chunk holds at most chunk_size words.
NeverSplitsWordAsStated == WordAlignedChunks(chunk_size)

\* C2 (amended): chunks start and end on word boundaries, are increasing and
\* disjoint, cover every word once, and hold at most chunk_size words when
\* chunk_size >= 1, at most 600 when chunk_size <= 0.
NeverSplitsWord ==
    WordAlignedChunks(IF chunk_size >= 1 THEN chunk_size ELSE DefaultChunkSize)

\* Three words chunked two at a time: a full chunk and a rest.
NeverSplitsWordWitness ==
    /\ ck_pc = "chunked"
    /\ chunk_size = 2
    /\ Len(chunks) = 2
    /\ Cardinality(WordsOfChunk(1)) = 2

\* ------------------------------------------------------ multi-pass extractor
\* The labeler (the external model behind predict_entities) is called once a
\* pass on the working text of length n; it returns a list of spans or fails.
\* A span is [start, end], its other fields playing no part in predict, with
\* 0 <= start < end <= n, or with an end one past the text (which the masking
\* loop guards against).  Nothing keeps the labeler from reporting a span
\* twice, in one call or in a later one.
LabelerSpans(n) ==
    {sp \in [start : 0..n, end : 1..(n + 1)] :
        /\ sp.start < sp.end
        /\ (sp.end <= n \/ sp.start = n - 1)}

LabelerOutcomes(n) ==
    {[raised |-> TRUE, spans |-> << >>]} \cup
    {[raised |-> FALSE, spans |-> f] : f \in SeqsUpTo(LabelerSpans(n), MaxFound)}

\* The stable insertion that list.sort(key=lambda x: x['start']) amounts to.
RECURSIVE InsertByStart(_, _)
InsertByStart(sorted, e) ==
    IF sorted = << >> THEN <<e>>
    ELSE IF sorted[Len(sorted)].start <= e.start THEN Append(sorted, e)
    ELSE Append(InsertByStart(SubSeq(sorted, 1, Len(sorted) - 1), e),
                sorted[Len(sorted)])

RECURSIVE SortFrom(_, _)
SortFrom(seq, acc) ==
    IF seq = << >> THEN acc
    ELSE SortFrom(Tail(seq), InsertByStart(acc, Head(seq)))

\* entities.sort(key=lambda x: x['start'])
sort_by_start(seq) == SortFrom(seq, << >>)

\* The filter of lines 119-124, processed being processed_spans as it grows.
RECURSIVE FilterNew(_, _, _)
FilterNew(found, processed, acc) ==
    IF found = << >> THEN acc
    ELSE IF <<found[1].start, found[1].end>> \notin processed
         THEN FilterNew(Tail(found),
                        processed \cup {<<found[1].start, found[1].end>>},
                        Append(acc, found[1]))
         ELSE FilterNew(Tail(found), processed, acc)

\* A filter that compares with the spans of earlier passes only.
unique_new_entities_earlier_only(found, processed) ==
    SelectSeq(found, LAMBDA e : <<e.start, e.end>> \notin processed)

\* unique_new_entities of one pass.
unique_new_entities(found, processed) == FilterNew(found, processed, << >>)

span_pairs(ents) == {<<ents[k].start, ents[k].end>> : k \in 1..Len(ents)}

\* Masking that also blanks the character at index end.
mask_entities_through_end(mtl, ents) ==
    [i \in 1..Len(mtl) |->
        IF \E k \in 1..Len(ents) : ents[k].start <= i - 1 /\ i - 1 <= ents[k].end
        THEN " " ELSE mtl[i]]

\* Lines 138-142: for i in range(start, end): if i < len: list[i] = ' '
\* (for start >= 0).
mask_entities(mtl, ents) ==
    [i \in 1..Len(mtl) |->
        IF \E k \in 1..Len(ents) : ents[k].start <= i - 1 /\ i - 1 < ents[k].end
        THEN " " ELSE mtl[i]]

ExTexts == SeqsUpTo({"a", " "}, MaxExtractLen)

ExInit ==
    /\ text \in ExTexts
    /\ max_passes \in 0..DefaultMaxPasses
    /\ pass_num = 0
    /\ mutable_text_list = << >>
    /\ processed_spans = {}
    /\ all_entities = << >>
    /\ filtered_out = 0
    /\ calls = 0
    /\ ex_pc = "start"
    /\ ChunkIdle /\ ParIdle /\ OvIdle /\ RdIdle /\ UtilIdle

\* Lines 71-73: empty or blank text returns [] at once.
PredictBlank ==
    /\ ex_pc = "start"
    /\ (text = << >> \/ strip(text) = << >>)
    /\ ex_pc' = "returned"
    /\ UNCHANGED <<max_passes, pass_num, mutable_text_list, processed_spans,
                   all_entities, filtered_out, calls, notEx>>

\* Lines 85-89: the state before the first pass.
PredictStart ==
    /\ ex_pc = "start"
    /\ ~(text = << >> \/ strip(text) = << >>)
    /\ mutable_text_list' = text
    /\ ex_pc' = "loop"
    /\ UNCHANGED <<max_passes, pass_num, processed_spans, all_entities,
                   filtered_out, calls, notEx>>

\* Lines 91-151: one pass, the labeler returning out on the working text.
Pass(out) ==
    /\ ex_pc = "loop"
    /\ pass_num < max_passes
    /\ calls' = calls + 1
    /\ filtered_out' = Len(out.spans)
                        - Len(unique_new_entities(out.spans, processed_spans))
    /\ IF out.raised \/ out.spans = << >>
          \/ unique_new_entities(out.spans, processed_spans) = << >>
       THEN \* the except clause, and both early stops, leave the loop
            /\ ex_pc' = "break"
            /\ processed_spans' = processed_spans
            /\ UNCHANGED <<all_entities, mutable_text_list, pass_num>>
       ELSE LET unique == unique_new_entities(out.spans, processed_spans)
            IN  /\ processed_spans' = processed_spans \cup span_pairs(unique)
                /\ all_entities' = all_entities \o unique
                /\ mutable_text_list' = mask_entities(mutable_text_list, unique)
                /\ pass_num' = pass_num + 1
                /\ ex_pc' = "loop"
    /\ UNCHANGED <<max_passes, notEx>>

LoopOver == ex_pc = "break" \/ (ex_pc = "loop" /\ pass_num >= max_passes)

\* Lines 153-160: sort and return.
PredictReturn ==
    /\ LoopOver
    /\ all_entities' = sort_by_start(all_entities)
    /\ ex_pc' = "returned"
    /\ UNCHANGED <<max_passes, pass_num, mutable_text_list, processed_spans,
                   filtered_out, calls, notEx>>

ExNext ==
    \/ PredictBlank
    \/ PredictStart
    \/ (/\ ex_pc = "loop"
        /\ \E out \in LabelerOutcomes(Len(text)) : Pass(out))
    \/ PredictReturn

SpecPredict == ExInit /\ [][ExNext]_vars

\* ------------------------------------------- multi-pass extractor: properties
NoRepeatedSpan(ents) ==
    \A i, j \in 1..Len(ents) :
        i # j => <<ents[i].start, ents[i].end>> # <<ents[j].start, ents[j].end>>

\* Some step of predict can be taken: PredictBlank or PredictStart, a Pass,
\* or PredictReturn.
CanStep ==
    \/ ex_pc = "start"
    \/ (ex_pc = "loop" /\ pass_num < max_passes)
    \/ LoopOver

\* C6: predict calls the labeler at most max_passes times (each pass is one
\* call, and predict is never stuck before it has returned), and never holds,
\* so never returns, two spans with the same (start, end), whether the
\* labeler repeated the span within one pass or in a later pass.
MultiPassTermination ==
    /\ calls <= max_passes
    /\ pass_num <= calls
    /\ (ex_pc # "returned" => CanStep)
    /\ NoRepeatedSpan(all_entities)

\* predict returned after max_passes = 2 labeler calls; the second pass found
\* one new span and dropped a repeated one.
MultiPassWitness ==
    /\ ex_pc = "returned"
    /\ max_passes = 2
    /\ calls = 2
    /\ pass_num = 2
    /\ Len(all_entities) = 2
    /\ filtered_out = 1

Covered(ents, i) ==
    \E k \in 1..Len(ents) : ents[k].start <= i /\ i < ents[k].end

\* C7: at the start of every pass the working text is as long as the text
\* and differs from it only at 0-based positions inside a span reported in
\* an earlier pass, where it holds a blank.
MaskingPreservesOffsets ==
    ex_pc = "loop" =>
        /\ Len(mutable_text_list) = Len(text)
        /\ \A i \in 1..Len(text) :
              /\ mutable_text_list[i] # text[i] =>
                    (mutable_text_list[i] = " " /\ Covered(all_entities, i - 1))
              /\ ~Covered(all_entities, i - 1) => mutable_text_list[i] = text[i]

\* The second pass starts on a text with a masked word and an untouched one.
MaskingWitness ==
    /\ ex_pc = "loop"
    /\ pass_num = 1
    /\ pass_num < max_passes
    /\ mutable_text_list # text
    /\ \E i \in 1..Len(text) : mutable_text_list[i] # " "

\* -------------------------------------------------------- parallel dispatcher
\* What extractor.predict(chunk) can do: raise, or return a list of spans
\* [start, end, text] sorted by start with no (start, end) twice, as predict
\* returns it.  The labeler's spans lie in the chunk, 0 <= start < end <=
\* len(chunk), and a span's text is the chunk's text at the span.
ChunkSpans(c) ==
    {[start |-> p[1], end |-> p[2], text |-> PySlice(c, p[1], p[2])] :
        p \in {q \in (0..(Len(c) - 1)) \X (1..Len(c)) : q[1] < q[2]}}

\* The lists of at most k spans of S in ascending start order, no span twice.
RECURSIVE SortedLists(_, _)
SortedLists(S, k) ==
    IF k = 0 THEN {<< >>}
    ELSE LET shorter == SortedLists(S, k - 1)
             longest == {l \in shorter : Len(l) = k - 1}
         IN  shorter \cup
             UNION {{Append(l, sp) :
                       sp \in {x \in S : \A i \in 1..Len(l) :
                                            l[i].start <= x.start /\ l[i] # x}} :
                    l \in longest}

PredictResults(c) ==
    {[raised |-> TRUE, spans |-> << >>]} \cup
    {[raised |-> FALSE, spans |-> f] : f \in SortedLists(ChunkSpans(c), MaxChunkSpans)}

\* Offsets "fixed" by moving start only.
adjust_start_only(ent, offset) == [ent EXCEPT !.start = @ + offset]

\* Lines 48-50: a copy of the span moved by the chunk's offset.
adjusted_ent(ent, offset) ==
    [ent EXCEPT !.start = @ + offset, !.end = @ + offset]

\* extract_entities_for_chunk: [] when predict raised (lines 58-60).
extract_entities_for_chunk(out, offset) ==
    IF out.raised THEN << >>
    ELSE [k \in 1..Len(out.spans) |-> adjusted_ent(out.spans[k], offset)]

\* all_entities = partial_entities: the list replaced instead of extended.
collect_replacing(all, partial) == partial

\* Line 122: all_entities.extend(partial_entities)
collect_entities(all, partial) == all \o partial

\* A return without the sort of line 135.
result_unsorted(all) == all

\* Lines 133-140: the list sorted by start.
parallel_result(all) == sort_by_start(all)

ParTexts == SeqsUpTo({"a", " "}, MaxParTextLen)

ParInit ==
    /\ text \in ParTexts
    /\ chunk_size \in 1..MaxChunkSize
    /\ max_workers \in 1..MaxWorkers
    /\ chunks = << >>
    /\ task = << >>
    /\ predicted = << >>
    /\ futures = << >>
    /\ collected = << >>
    /\ par_entities = << >>
    /\ par_pc = "start"
    /\ valid = "none" /\ ck_pc = "idle"
    /\ ExIdle /\ OvIdle /\ RdIdle /\ UtilIdle

\* Lines 83-85: empty or blank text returns [] at once.
ParallelBlank ==
    /\ par_pc = "start"
    /\ (text = << >> \/ strip(text) = << >>)
    /\ par_pc' = "returned"
    /\ UNCHANGED <<text, chunk_size, chunks, max_workers, task, predicted,
                   futures, collected, par_entities, notPar>>

\* Lines 91-105: the text is chunked, the pool is opened and futures = [];
\* without chunks the call returns [] (lines 95-97).
OpenPool ==
    /\ par_pc = "start"
    /\ ~(text = << >> \/ strip(text) = << >>)
    /\ chunks' = chunk_text(text, chunk_size)
    /\ par_pc' = IF chunks' = << >> THEN "returned" ELSE "submit"
    /\ UNCHANGED <<text, chunk_size, max_workers, task, predicted, futures,
                   collected, par_entities, notPar>>

\* Lines 106-114, one turn of the loop: executor.submit puts the task of the
\* next chunk on the queue and its future is appended to futures.  After
\* the last chunk the caller goes on to as_completed.
SubmitTask ==
    /\ par_pc = "submit"
    /\ Len(task) < Len(chunks)
    /\ task' = Append(task, "queued")
    /\ predicted' = Append(predicted, [raised |-> FALSE, spans |-> << >>])
    /\ futures' = Append(futures, << >>)
    /\ par_pc' = IF Len(task') = Len(chunks) THEN "collect" ELSE "submit"
    /\ UNCHANGED <<text, chunk_size, chunks, max_workers, collected,
                   par_entities, notPar>>

\* A free worker of the pool takes the task at the head of the queue, while
\* the caller is still submitting or waits for the futures.
StartTask(c) ==
    /\ par_pc \in {"submit", "collect"}
    /\ c \in DOMAIN task
    /\ task[c] = "queued"
    /\ \A d \in DOMAIN task : d < c => task[d] # "queued"
    /\ Cardinality({d \in DOMAIN task : task[d] = "running"}) < max_workers
    /\ task' = [task EXCEPT ![c] = "running"]
    /\ UNCHANGED <<text, chunk_size, chunks, max_workers, predicted, futures,
                   collected, par_entities, par_pc, notPar>>

\* extract_entities_for_chunk runs to its end, predict doing out.
FinishTask(c, out) ==
    /\ c \in DOMAIN task
    /\ task[c] = "running"
    /\ predicted' = [predicted EXCEPT ![c] = out]
    /\ futures' = [futures EXCEPT ![c] = extract_entities_for_chunk(out, chunks[c][2])]
    /\ task' = [task EXCEPT ![c] = "done"]
    /\ UNCHANGED <<text, chunk_size, chunks, max_workers, collected,
                   par_entities, par_pc, notPar>>

\* Lines 119-124: as_completed yields a finished future, in any order.
CollectFuture(c) ==
    /\ par_pc = "collect"
    /\ c \in DOMAIN task
    /\ task[c] = "done"
    /\ \A k \in 1..Len(collected) : collected[k] # c
    /\ par_entities' = collect_entities(par_entities, futures[c])
    /\ collected' = Append(collected, c)
    /\ UNCHANGED <<text, chunk_size, chunks, max_workers, task, predicted,
                   futures, par_pc, notPar>>

\* Lines 129-140: every future was yielded; sort and return.
ParallelReturn ==
    /\ par_pc = "collect"
    /\ Len(collected) = Len(task)
    /\ par_entities' = parallel_result(par_entities)
    /\ par_pc' = "returned"
    /\ UNCHANGED <<text, chunk_size, chunks, max_workers, task, predicted,
                   futures, collected, notPar>>

ParNext ==
    \/ ParallelBlank
    \/ OpenPool
    \/ SubmitTask
    \/ \E c \in DOMAIN task : StartTask(c)
    \/ \E c \in {d \in DOMAIN task : task[d] = "running"} :
          \E out \in PredictResults(chunks[c][1]) : FinishTask(c, out)
    \/ \E c \in DOMAIN task : CollectFuture(c)
    \/ ParallelReturn

SpecParallel == ParInit /\ [][ParNext]_vars

\* ---------------------------------------------- parallel dispatcher: properties
ChunkOffset(c) == chunks[c][2]
Returned == par_pc = "returned" /\ chunks # << >>

\* The spans predict returned for chunk c, moved to the chunk's place.
Shifted(c) ==
    [k \in 1..Len(predicted[c].spans) |->
        [start |-> predicted[c].spans[k].start + ChunkOffset(c),
         end |-> predicted[c].spans[k].end + ChunkOffset(c),
         text |-> predicted[c].spans[k].text]]

RECURSIVE ShiftedUpTo(_)
ShiftedUpTo(c) == IF c = 0 THEN << >> ELSE ShiftedUpTo(c - 1) \o Shifted(c)

\* How often span e occurs in list l.
Count(l, e) == Cardinality({k \in 1..Len(l) : l[k] = e})

\* C3: every returned span is a span of some chunk's predict result with the
\* chunk's offset added to start and end, and a span whose text was the
\* chunk's text at [start, end) returns with the full text's at its new
\* [start, end), which lies in the full text.
OffsetFidelity ==
    /\ \A c \in DOMAIN task :
          task[c] = "done" /\ ~predicted[c].raised => futures[c] = Shifted(c)
    /\ Returned =>
          \A i \in 1..Len(par_entities) :
             /\ \E c \in DOMAIN task : \E k \in 1..Len(predicted[c].spans) :
                   par_entities[i] = Shifted(c)[k]
             /\ \A c \in DOMAIN task : \A k \in 1..Len(predicted[c].spans) :
                   (/\ par_entities[i] = Shifted(c)[k]
                    /\ predicted[c].spans[k].text
                          = PySlice(chunks[c][1], predicted[c].spans[k].start,
                                    predicted[c].spans[k].end))
                   => /\ PySlice(text, par_entities[i].start, par_entities[i].end)
                            = par_entities[i].text
                      /\ 0 <= par_entities[i].start
                      /\ par_entities[i].start < par_entities[i].end
                      /\ par_entities[i].end <= Len(text)

\* A returned span of a later chunk, its offset added, that holds the text
\* at its place.
OffsetFidelityWitness ==
    /\ Returned
    /\ \E i \in 1..Len(par_entities) : \E c \in DOMAIN task :
          /\ ChunkOffset(c) > 1
          /\ par_entities[i].start > ChunkOffset(c)
          /\ par_entities[i].end <= ChunkOffset(c) + Len(chunks[c][1])
          /\ PySlice(text, par_entities[i].start, par_entities[i].end)
                = par_entities[i].text

\* C4: the call returns only when every task is done, and what it returns is
\* the spans of all tasks, each once, in ascending start order: the chunks'
\* span lists one after the other, whatever the order of completion.
ForkJoinDeterminism ==
    Returned =>
        /\ \A c \in DOMAIN task : task[c] = "done"
        /\ par_entities = ShiftedUpTo(Len(chunks))
        /\ \A i \in 1..(Len(par_entities) - 1) :
              par_entities[i].start <= par_entities[i + 1].start

\* Two chunks with spans, the second chunk's future yielded first.
ForkJoinWitness ==
    /\ Returned
    /\ Len(chunks) = 2
    /\ collected = <<2, 1>>
    /\ futures[1] # << >>
    /\ futures[2] # << >>

\* C5: a chunk on which predict raised contributes no span, the tasks of the
\* other chunks all run to completion, and the call returns every span of
\* the chunks on which predict did not raise.
FailureIsolation ==
    Returned =>
        /\ \A c \in DOMAIN task : task[c] = "done"
        /\ \A c \in DOMAIN task :
              predicted[c].raised =>
                 /\ futures[c] = << >>
                 /\ \A i \in 1..Len(par_entities) :
                       ~(/\ ChunkOffset(c) <= par_entities[i].start
                         /\ par_entities[i].start < ChunkOffset(c) + Len(chunks[c][1]))
        /\ \A c \in DOMAIN task :
              ~predicted[c].raised =>
                 \A k \in 1..Len(Shifted(c)) :
                    Count(par_entities, Shifted(c)[k]) = Count(Shifted(c), Shifted(c)[k])

\* predict raised on the first chunk, which was also the first to complete,
\* and the spans of the second chunk were returned.
FailureIsolationWitness ==
    /\ Returned
    /\ Len(chunks) = 2
    /\ predicted[1].raised
    /\ collected = <<1, 2>>
    /\ ~predicted[2].raised
    /\ par_entities # << >>
    /\ par_entities = futures[2]

\* ----------------------------------------------------------- overlap resolution
\* Scores in tenths: 0.5 and 0.9.
Scores == {5, 9}

\* The spans given to resolve_overlaps: 0 <= start < end <= MaxOverlapEnd.
OverlapSpans ==
    {[start |-> p[1], end |-> p[2], score |-> sc] :
        p \in {q \in (0..(MaxOverlapEnd - 1)) \X (1..MaxOverlapEnd) : q[1] < q[2]},
        sc \in Scores}

\* The three strategies and a name resolve_overlaps does not know.
Strategies == {"highest_confidence", "longest", "first", "shortest"}

\* not (end1 <= start2 or end2 <= start1)
_entities_overlap(entity1, entity2) ==
    ~(entity1.end <= entity2.start \/ entity2.end <= entity1.start)

\* The two loops of _detect_overlaps from the 0-based pair (i, j) on.
RECURSIVE DetectFrom(_, _, _, _)
DetectFrom(entities, i, j, acc) ==
    IF i >= Len(entities) THEN acc
    ELSE IF j >= Len(entities) THEN DetectFrom(entities, i + 1, i + 2, acc)
    ELSE DetectFrom(entities, i, j + 1,
                    IF _entities_overlap(entities[i + 1], entities[j + 1])
                    THEN Append(acc, <<i, j>>) ELSE acc)

\* A detection that compares each span with the next one of the list only.
RECURSIVE AdjacentFrom(_, _, _)
AdjacentFrom(entities, i, acc) ==
    IF i + 1 >= Len(entities) THEN acc
    ELSE AdjacentFrom(entities, i + 1,
                      IF _entities_overlap(entities[i + 1], entities[i + 2])
                      THEN Append(acc, <<i, i + 1>>) ELSE acc)

detect_adjacent_only(entities) == AdjacentFrom(entities, 0, << >>)

\* The pairs (i, j), i < j, of overlapping spans, in the order of the loops.
_detect_overlaps(entities) == DetectFrom(entities, 0, 1, << >>)

\* A choice that reads "first" as the span that starts first.
removed_index_by_start(entities, idx1, idx2, strat) ==
    LET entity1 == entities[idx1 + 1]
        entity2 == entities[idx2 + 1]
    IN  IF strat = "highest_confidence"
        THEN IF entity2.score > entity1.score THEN idx1 ELSE idx2
        ELSE IF strat = "longest"
        THEN IF entity2.end - entity2.start > entity1.end - entity1.start
             THEN idx1 ELSE idx2
        ELSE IF entity2.start < entity1.start THEN idx1 ELSE idx2

\* The index resolve_overlaps adds to to_remove for the pair (idx1, idx2).
removed_index(entities, idx1, idx2, strat) ==
    LET entity1 == entities[idx1 + 1]
        entity2 == entities[idx2 + 1]
    IN  IF strat = "highest_confidence"
        THEN IF entity2.score > entity1.score THEN idx1 ELSE idx2
        ELSE IF strat = "longest"
        THEN IF entity2.end - entity2.start > entity1.end - entity1.start
             THEN idx1 ELSE idx2
        ELSE idx2

\* [entity for i, entity in enumerate(entities) if i not in to_remove]
RECURSIVE KeepFrom(_, _, _, _)
KeepFrom(entities, removed, i, acc) ==
    IF i >= Len(entities) THEN acc
    ELSE KeepFrom(entities, removed, i + 1,
                  IF i \in removed THEN acc ELSE Append(acc, entities[i + 1]))

not_removed(entities, removed) == KeepFrom(entities, removed, 0, << >>)

OvInit ==
    /\ ov_entities \in SeqsUpTo(OverlapSpans, MaxOverlapEntities)
    /\ strategy \in Strategies
    /\ overlaps = << >>
    /\ ov_next = 0
    /\ to_remove = {}
    /\ resolved = << >>
    /\ ov_pc = "start"
    /\ text = << >>
    /\ ChunkIdle /\ ExIdle /\ ParIdle /\ RdIdle /\ UtilIdle

\* if not entities: return []
ResolveEmpty ==
    /\ ov_pc = "start"
    /\ ov_entities = << >>
    /\ resolved' = << >>
    /\ ov_pc' = "returned"
    /\ UNCHANGED <<ov_entities, strategy, overlaps, ov_next, to_remove, notOv>>

\* overlaps = self._detect_overlaps(entities); without overlaps a copy of the
\* list is returned.
DetectOverlaps ==
    /\ ov_pc = "start"
    /\ ov_entities # << >>
    /\ overlaps' = _detect_overlaps(ov_entities)
    /\ IF overlaps' = << >>
       THEN resolved' = ov_entities /\ ov_pc' = "returned"
       ELSE resolved' = resolved /\ ov_pc' = "resolve"
    /\ UNCHANGED <<ov_entities, strategy, ov_next, to_remove, notOv>>

\* One turn of the loop over the detected pairs.
ResolvePair ==
    /\ ov_pc = "resolve"
    /\ ov_next < Len(overlaps)
    /\ LET idx1 == overlaps[ov_next + 1][1]
           idx2 == overlaps[ov_next + 1][2]
       IN  to_remove' =
              IF idx1 \in to_remove \/ idx2 \in to_remove
              THEN to_remove
              ELSE to_remove \cup {removed_index(ov_entities, idx1, idx2, strategy)}
    /\ ov_next' = ov_next + 1
    /\ UNCHANGED <<ov_entities, strategy, overlaps, resolved, ov_pc, notOv>>

\* The loop is over: the spans not marked for removal are returned.
ResolveReturn ==
    /\ ov_pc = "resolve"
    /\ ov_next = Len(overlaps)
    /\ resolved' = not_removed(ov_entities, to_remove)
    /\ ov_pc' = "returned"
    /\ UNCHANGED <<ov_entities, strategy, overlaps, ov_next, to_remove, notOv>>

OvNext ==
    \/ ResolveEmpty
    \/ DetectOverlaps
    \/ ResolvePair
    \/ ResolveReturn

SpecOverlap == OvInit /\ [][OvNext]_vars

\* ----------------------------------------------- overlap resolution: properties
\* The half-open intervals of two spans share a position.
Intersect(e1, e2) ==
    \E p \in 0..MaxOverlapEnd :
        /\ e1.start <= p /\ p < e1.end
        /\ e2.start <= p /\ p < e2.end

\* C8: whatever the input list and the strategy, no two spans of the list
\* resolve_overlaps returns have intersecting intervals.
NoOverlapInvariant ==
    ov_pc = "returned" =>
        \A i, j \in 1..Len(resolved) :
            i < j => ~Intersect(resolved[i], resolved[j])

\* Three spans with two overlapping pairs: the first pair cost the middle
\* span, the second pair was passed over, and two disjoint spans remain.
NoOverlapWitness ==
    /\ ov_pc = "returned"
    /\ strategy = "highest_confidence"
    /\ Len(ov_entities) = 3
    /\ Len(overlaps) = 2
    /\ to_remove = {1}
    /\ Len(resolved) = 2

\* -------------------------------------------------------------------- redactor
LowerCase == <<"a", "b", "c", "d", "e", "f", "g", "h", "i", "j", "k", "l", "m", "n", "o", "p", "q", "r", "s", "t", "u", "v", "w", "x", "y", "z">>
UpperCase == <<"A", "B", "C", "D", "E", "F", "G", "H", "I", "J", "K", "L", "M", "N", "O", "P", "Q", "R", "S", "T", "U", "V", "W", "X", "Y", "Z">>

\* str.upper(): a lower-case letter becomes its upper-case letter, any other
\* character stays.
UpperOf ==
    [c \in {LowerCase[i] : i \in 1..Len(LowerCase)} |->
        UpperCase[CHOOSE i \in 1..Len(LowerCase) : LowerCase[i] = c]]

upper_char(c) == IF c \in DOMAIN UpperOf THEN UpperOf[c] ELSE c

upper(s) == [i \in 1..Len(s) |-> upper_char(s[i])]

Digits == <<"0", "1", "2", "3", "4", "5", "6", "7", "8", "9">>

\* str(n) of an integer n >= 0: its decimal digits.
RECURSIVE str(_)
str(n) ==
    IF n < 10 THEN <<Digits[n + 1]>>
    ELSE str(n \div 10) \o <<Digits[(n % 10) + 1]>>

\* The labels and original texts of the spans given to redact.
RedactLabels ==
    {<<"p", "e", "r", "s", "o", "n">>,
     <<"P", "e", "r", "s", "o", "n">>,
     <<"l", "o", "c", "a", "t", "i", "o", "n">>}

Originals ==
    {<<"J", "o", "h", "n", " ", "S", "m", "i", "t", "h">>,
     <<"P", "a", "r", "i", "s">>}

\* The (label, text) pairs of the spans given to redact: two texts of one
\* label, a text under two labels that differ in case only, and under a
\* third label.
RedactKeys ==
    {<<l, t>> \in RedactLabels \X Originals :
        l = <<"p", "e", "r", "s", "o", "n">> \/ t = <<"P", "a", "r", "i", "s">>}

\* The span lists given to redact: any of these pairs, the i-th span of
\* the list lying i-th in the text, or i-th from its end, 12 characters apart.
RedactEntityLists ==
    {[i \in 1..Len(ks) |->
        LET at == IF asc THEN 12 * (i - 1) ELSE 12 * (Len(ks) - i)
        IN  [label |-> ks[i][1], text |-> ks[i][2],
             start |-> at, end |-> at + Len(ks[i][2])]] :
     ks \in SeqsUpTo(RedactKeys, MaxRedactEntities),
     asc \in BOOLEAN}

\* A span's text and then blanks, 12 characters in all.
Padded(t) == t \o SubSeq(<<" ", " ", " ", " ", " ", " ", " ", " ", " ", " ", " ", " ">>,
                         1, 12 - Len(t))

RECURSIVE PaddedTexts(_)
PaddedTexts(entities) ==
    IF entities = << >> THEN << >>
    ELSE Padded(entities[1].text) \o PaddedTexts(Tail(entities))

\* The text the spans of such a list are taken from.
SourceText(entities) ==
    IF entities = << >> \/ entities[1].start = 0
    THEN PaddedTexts(entities)
    ELSE PaddedTexts([i \in 1..Len(entities) |-> entities[Len(entities) + 1 - i]])

\* self.used_ids_per_label[label] of the defaultdict(set).
used_ids(used, label) == IF label \in DOMAIN used THEN used[label] ELSE {}

\* A search with an if in place of the while: one step up at most.
candidate_id_checked_once(ids, candidate) ==
    IF str(candidate) \in ids THEN candidate + 1 ELSE candidate

\* while str(candidate_id) in used_ids: candidate_id += 1
RECURSIVE candidate_id(_, _)
candidate_id(ids, candidate) ==
    IF str(candidate) \in ids THEN candidate_id(ids, candidate + 1) ELSE candidate

\* An id generator that does not record the id it hands out.
generate_id_unrecorded(used, label) ==
    [id |-> str(candidate_id(used_ids(used, label), 1)),
     used |-> [l \in DOMAIN used \cup {label} |-> used_ids(used, l)]]

\* _generate_unique_id(label): the smallest positive integer not in use for
\* the label, as a string, and used_ids_per_label with it added.
_generate_unique_id(used, label) ==
    LET id == str(candidate_id(used_ids(used, label), 1))
    IN  [id |-> id,
         used |-> [l \in DOMAIN used \cup {label} |->
                      IF l = label THEN used_ids(used, l) \cup {id}
                      ELSE used[l]]]

\* m with key k set to v.
SetItem(m, k, v) == [x \in DOMAIN m \cup {k} |-> IF x = k THEN v ELSE m[x]]

\* The loop of _build_entity_id_map without its membership test: every span
\* draws a new id.
RECURSIVE BuildEveryFrom(_, _, _)
BuildEveryFrom(entities, map, used) ==
    IF entities = << >> THEN [map |-> map, used |-> used]
    ELSE LET entity_key == <<entities[1].label, entities[1].text>>
             gen == _generate_unique_id(used, upper(entities[1].label))
         IN  BuildEveryFrom(Tail(entities), SetItem(map, entity_key, gen.id),
                            gen.used)

build_map_every_span(entities, used) == BuildEveryFrom(entities, << >>, used)

\* The loop of _build_entity_id_map over the rest of the list.
RECURSIVE BuildFrom(_, _, _)
BuildFrom(entities, map, used) ==
    IF entities = << >> THEN [map |-> map, used |-> used]
    ELSE LET entity_key == <<entities[1].label, entities[1].text>>
         IN  IF entity_key \in DOMAIN map
             THEN BuildFrom(Tail(entities), map, used)
             ELSE LET gen == _generate_unique_id(used, upper(entities[1].label))
                  IN  BuildFrom(Tail(entities),
                                SetItem(map, entity_key, gen.id), gen.used)

\* _build_entity_id_map(entities): the map and used_ids_per_label after it.
_build_entity_id_map(entities, used) == BuildFrom(entities, << >>, used)

\* A format without the {id} field: "#_{label}_REDACTED".
format_without_id(id, label) ==
    <<"#", "_">> \o label \o <<"_", "R", "E", "D", "A", "C", "T", "E", "D">>

\* The default format "#{id}_{label}_REDACTED" filled in by str.format.
format_placeholder(id, label) ==
    <<"#">> \o id \o <<"_">> \o label \o <<"_", "R", "E", "D", "A", "C", "T", "E", "D">>

\* The stable insertion that sorted(..., key=start, reverse=True) amounts to.
RECURSIVE InsertByStartReverse(_, _)
InsertByStartReverse(sorted, e) ==
    IF sorted = << >> THEN <<e>>
    ELSE IF sorted[Len(sorted)].start >= e.start THEN Append(sorted, e)
    ELSE Append(InsertByStartReverse(SubSeq(sorted, 1, Len(sorted) - 1), e),
                sorted[Len(sorted)])

RECURSIVE SortReverseFrom(_, _)
SortReverseFrom(seq, acc) ==
    IF seq = << >> THEN acc
    ELSE SortReverseFrom(Tail(seq), InsertByStartReverse(acc, Head(seq)))

\* sorted(entities, key=start) in place of the reverse order.
sorted_entities_ascending(entities) == sort_by_start(entities)

\* sorted(entities, key=lambda x: x['start'], reverse=True)
sorted_entities(entities) == SortReverseFrom(entities, << >>)

\* redact lines 110-156: the loop over sorted_entities, with the local map,
\* used_ids_per_label, the details, the re-identification map and the
\* redacted text so far.
RECURSIVE RedactLoop(_, _, _, _, _, _, _, _)
RedactLoop(sorted, map, used, details, reid, redacted, num, cons) ==
    IF sorted = << >>
    THEN [details |-> details, reid |-> reid, used |-> used,
          redacted_text |-> redacted]
    ELSE LET entity == Head(sorted)
             label == upper(entity.label)
             gen == _generate_unique_id(used, label)
             redaction_id ==
                 IF num
                 THEN IF cons THEN map[<<entity.label, entity.text>>] ELSE gen.id
                 ELSE label \o <<"_", "S", "T", "A", "T", "I", "C">>
             placeholder ==
                 IF num THEN format_placeholder(redaction_id, label)
                 ELSE label \o <<"_", "R", "E", "D", "A", "C", "T", "E", "D">>
             detail == [label |-> label, original |-> entity.text,
                        placeholder |-> placeholder, start |-> entity.start,
                        end |-> entity.end, redaction_id |-> redaction_id]
         IN  RedactLoop(Tail(sorted), map,
                        IF num /\ ~cons THEN gen.used ELSE used,
                        Append(details, detail),
                        SetItem(reid, placeholder, entity.text),
                        PySlice(redacted, 0, entity.start) \o placeholder
                           \o PySlice(redacted, entity.end, Len(redacted)),
                        num, cons)

RdInit ==
    /\ used_ids_per_label = << >>
    /\ rd_text = << >>
    /\ rd_entities = << >>
    /\ numbered = FALSE
    /\ consistent_ids = FALSE
    /\ entity_to_id = << >>
    /\ redaction_details = << >>
    /\ re_identification_map = << >>
    /\ anonymized_text = << >>
    /\ used_at_call = << >>
    /\ rd_calls = 0
    /\ rd_pc = "ready"
    /\ entity_id_map = << >>
    /\ bt_texts = << >>
    /\ bt_entities = << >>
    /\ global_entity_map = << >>
    /\ old_map = << >>
    /\ bt_results = << >>
    /\ bt_pc = "idle"
    /\ issued = << >>
    /\ text = << >>
    /\ ChunkIdle /\ ExIdle /\ ParIdle /\ OvIdle /\ UtilIdle

\* redact(txt, entities, numbered=num, consistent_ids=cons) with the default
\* format, from its call to its return.
Redact(txt, entities, num, cons) ==
    /\ rd_pc = "ready"
    /\ rd_calls < MaxRedactCalls
    /\ rd_calls' = rd_calls + 1
    /\ rd_text' = txt
    /\ rd_entities' = entities
    /\ numbered' = num
    /\ consistent_ids' = cons
    /\ used_at_call' = used_ids_per_label
    /\ IF entities = << >>
       THEN /\ entity_to_id' = << >>
            /\ redaction_details' = << >>
            /\ re_identification_map' = << >>
            /\ anonymized_text' = txt
            /\ used_ids_per_label' = used_ids_per_label
       ELSE LET built == IF num /\ cons
                         THEN _build_entity_id_map(entities, used_ids_per_label)
                         ELSE [map |-> << >>, used |-> used_ids_per_label]
                out == RedactLoop(sorted_entities(entities), built.map,
                                  built.used, << >>, << >>, txt, num, cons)
            IN  /\ entity_to_id' = built.map
                /\ redaction_details' = sort_by_start(out.details)
                /\ re_identification_map' = out.reid
                /\ anonymized_text' = out.redacted_text
                /\ used_ids_per_label' = out.used
    /\ rd_pc' = "returned"
    /\ UNCHANGED <<notRd, btVars>>

\* The caller has the result; the locals of the call are gone.
RedactExit ==
    /\ rd_pc = "returned"
    /\ rd_text' = << >>
    /\ rd_entities' = << >>
    /\ numbered' = FALSE
    /\ consistent_ids' = FALSE
    /\ entity_to_id' = << >>
    /\ redaction_details' = << >>
    /\ re_identification_map' = << >>
    /\ anonymized_text' = << >>
    /\ used_at_call' = << >>
    /\ rd_pc' = "ready"
    /\ UNCHANGED <<used_ids_per_label, rd_calls, notRd, btVars, issued>>

\* clear_history(): entity_id_map.clear() and used_ids_per_label.clear()
ClearHistory ==
    /\ rd_pc = "ready"
    /\ bt_pc \in {"idle", "ready"}
    /\ used_ids_per_label' = << >>
    /\ entity_id_map' = << >>
    /\ issued' = << >>
    /\ UNCHANGED <<rd_text, rd_entities, numbered, consistent_ids, entity_to_id,
                   redaction_details, re_identification_map, anonymized_text,
                   used_at_call, rd_calls, rd_pc, notRd, bt_texts, bt_entities,
                   global_entity_map, old_map, bt_results, bt_pc>>

RdNext ==
    \/ (/\ rd_pc = "ready"
        /\ rd_calls < MaxRedactCalls
        /\ \E entities \in RedactEntityLists : \E num, cons \in BOOLEAN :
              /\ Redact(SourceText(entities), entities, num, cons)
              /\ UNCHANGED issued)
    \/ RedactExit
    \/ ClearHistory

SpecRedact == RdInit /\ [][RdNext]_vars

\* ----------------------------------------------------------- redactor: properties
\* A numbered redact call with consistent ids has returned.
ConsistentRun == rd_pc = "returned" /\ numbered /\ consistent_ids

\* The span of the k-th detail: the details are in the order of the spans'
\* starts.
DetailSpan(k) == sort_by_start(rd_entities)[k]

SameKey(e1, e2) == e1.label = e2.label /\ e1.text = e2.text

\* C9: in one numbered redact run with consistent ids, whatever ids are in
\* use when it starts, every span has its detail, two spans with the same
\* (label, text) have the same redaction id and placeholder, and two spans
\* with the same label and different texts have different redaction ids.
RedactionIdStability ==
    ConsistentRun =>
        LET spans == sort_by_start(rd_entities)
        IN  /\ Len(redaction_details) = Len(rd_entities)
            /\ \A i, j \in 1..Len(redaction_details) :
                  LET di == redaction_details[i]
                      dj == redaction_details[j]
                  IN  /\ di.original = spans[i].text
                      /\ di.start = spans[i].start
                      /\ di.label = upper(spans[i].label)
                      /\ SameKey(spans[i], spans[j]) =>
                            /\ di.redaction_id = dj.redaction_id
                            /\ di.placeholder = dj.placeholder
                      /\ (/\ spans[i].label = spans[j].label
                          /\ spans[i].text # spans[j].text) =>
                            di.redaction_id # dj.redaction_id

\* A run that began with ids in use, on two spans of one (label, text) and a
\* third span of the same label and another text.
RedactionIdStabilityWitness ==
    /\ ConsistentRun
    /\ \E l \in DOMAIN used_at_call : used_at_call[l] # {}
    /\ Len(redaction_details) = 3
    /\ \E i, j, k \in 1..3 :
          /\ i # j
          /\ SameKey(DetailSpan(i), DetailSpan(j))
          /\ DetailSpan(i).label = DetailSpan(k).label
          /\ DetailSpan(i).text # DetailSpan(k).text
          /\ redaction_details[i].redaction_id # str(1)

\* The distinct members of seq, in order of first appearance.
RECURSIVE FirstAppearance(_, _)
FirstAppearance(seq, acc) ==
    IF seq = << >> THEN acc
    ELSE FirstAppearance(Tail(seq),
                         IF \A n \in 1..Len(acc) : acc[n] # Head(seq)
                         THEN Append(acc, Head(seq)) ELSE acc)

\* The (label, text) pairs of the input list, in list order.
InputKeys == [i \in 1..Len(rd_entities) |-> <<rd_entities[i].label, rd_entities[i].text>>]

\* The run began on a Redactor just constructed or cleared.
FreshRun == ConsistentRun /\ used_at_call = << >>

\* Every detail of a span with (label, text) = key has the id str(n).
KeyHasId(key, n) ==
    LET spans == sort_by_start(rd_entities)
    IN  \A i \in 1..Len(redaction_details) :
            <<spans[i].label, spans[i].text>> = key =>
                /\ redaction_details[i].redaction_id = str(n)
                /\ redaction_details[i].placeholder
                      = format_placeholder(str(n), upper(key[1]))

\* C10 as stated: the k distinct texts of each label, in order of first
\* appearance, have the ids 1..k, each label numbered on its own.
PerLabelSmallestIdsAsStated ==
    FreshRun =>
        \A l \in RedactLabels :
            LET keys == FirstAppearance(SelectSeq(InputKeys, LAMBDA key : key[1] = l), << >>)
            IN  \A n \in 1..Len(keys) : KeyHasId(keys[n], n)

\* C10: the k distinct (label, text) pairs whose labels are the same when
\* upper-cased, in order of first appearance, have the ids 1..k; labels that
\* differ in more than letter case are numbered independently.
PerLabelSmallestIds ==
    FreshRun =>
        \A u \in {upper(l) : l \in RedactLabels} :
            LET keys == FirstAppearance(SelectSeq(InputKeys, LAMBDA key : upper(key[1]) = u),
                                       << >>)
            IN  \A n \in 1..Len(keys) : KeyHasId(keys[n], n)

\* Scenario A on a fresh Redactor: "John Smith" (person) twice, then "Paris"
\* (location); the placeholders are #1_PERSON_REDACTED, twice, and
\* #1_LOCATION_REDACTED.
PerLabelSmallestIdsWitness ==
    /\ FreshRun
    /\ Len(redaction_details) = 3
    /\ redaction_details[1].original = <<"J", "o", "h", "n", " ", "S", "m", "i", "t", "h">>
    /\ redaction_details[1].placeholder = <<"#", "1", "_", "P", "E", "R", "S", "O", "N", "_", "R", "E", "D", "A", "C", "T", "E", "D">>
    /\ redaction_details[2].original = <<"J", "o", "h", "n", " ", "S", "m", "i", "t", "h">>
    /\ redaction_details[2].placeholder = <<"#", "1", "_", "P", "E", "R", "S", "O", "N", "_", "R", "E", "D", "A", "C", "T", "E", "D">>
    /\ redaction_details[3].original = <<"P", "a", "r", "i", "s">>
    /\ redaction_details[3].placeholder = <<"#", "1", "_", "L", "O", "C", "A", "T", "I", "O", "N", "_", "R", "E", "D", "A", "C", "T", "E", "D">>
    /\ DetailSpan(1).label = <<"p", "e", "r", "s", "o", "n">>

\* ---------------------------------------------------------------- batch_redact
\* The (label, text) pairs of the spans given to batch_redact.
BatchKeys == {k \in RedactKeys : k[1] # <<"P", "e", "r", "s", "o", "n">>}

\* The span lists of one text of a batch: the i-th span lies i-th in the text.
BatchEntityLists ==
    {[i \in 1..Len(ks) |->
        [label |-> ks[i][1], text |-> ks[i][2],
         start |-> 12 * (i - 1), end |-> 12 * (i - 1) + Len(ks[i][2])]] :
     ks \in SeqsUpTo(BatchKeys, MaxBatchEntities)}

\* Lines 229-233: the set of the (label, text) pairs of all texts.
all_entity_keys(all) ==
    UNION {{<<all[t][i].label, all[t][i].text>> : i \in 1..Len(all[t])} :
           t \in 1..Len(all)}

\* The orders in which a for loop can go through the set S: the order of a
\* Python set of tuples of strings changes with the hash seed.
SetOrders(S) ==
    {f \in [1..Cardinality(S) -> S] : \A i, j \in 1..Cardinality(S) : i # j => f[i] # f[j]}

\* Lines 235-239: ids pre-generated for the pairs in the order keys.
RECURSIVE PreGenerate(_, _, _)
PreGenerate(keys, map, used) ==
    IF keys = << >> THEN [map |-> map, used |-> used]
    ELSE LET gen == _generate_unique_id(used, upper(keys[1][1]))
         IN  PreGenerate(Tail(keys), SetItem(map, keys[1], gen.id), gen.used)

\* The first id given to each pair: old entries stay, new pairs are added.
record_issued(old, map) ==
    [k \in DOMAIN old \cup DOMAIN map |-> IF k \in DOMAIN old THEN old[k] ELSE map[k]]

BtInit ==
    /\ used_ids_per_label = << >>
    /\ rd_text = << >>
    /\ rd_entities = << >>
    /\ numbered = FALSE
    /\ consistent_ids = FALSE
    /\ entity_to_id = << >>
    /\ redaction_details = << >>
    /\ re_identification_map = << >>
    /\ anonymized_text = << >>
    /\ used_at_call = << >>
    /\ rd_calls = 0
    /\ rd_pc = "ready"
    /\ entity_id_map = << >>
    /\ bt_texts = << >>
    /\ bt_entities = << >>
    /\ global_entity_map = << >>
    /\ old_map = << >>
    /\ bt_results = << >>
    /\ bt_pc = "ready"
    /\ issued = << >>
    /\ text = << >>
    /\ ChunkIdle /\ ExIdle /\ ParIdle /\ OvIdle /\ UtilIdle

\* Lines 224-239: batch_redact(texts, all) up to its loop over the texts;
\* order is the order in which the set of pairs is gone through.
BatchStart(texts, all, order) ==
    /\ bt_pc = "ready"
    /\ rd_pc = "ready"
    /\ bt_texts' = texts
    /\ bt_entities' = all
    /\ bt_results' = << >>
    /\ IF Len(texts) # Len(all)
       THEN /\ bt_pc' = "raised"
            /\ UNCHANGED <<global_entity_map, used_ids_per_label>>
       ELSE LET pre == PreGenerate(order, << >>, used_ids_per_label)
            IN  /\ global_entity_map' = pre.map
                /\ used_ids_per_label' = pre.used
                /\ bt_pc' = "loop"
    /\ UNCHANGED <<rd_text, rd_entities, numbered, consistent_ids, entity_to_id,
                   redaction_details, re_identification_map, anonymized_text,
                   used_at_call, rd_calls, rd_pc, entity_id_map, old_map,
                   issued, notRd>>

\* Lines 243-246: the instance's map is saved and overridden.
BatchOverride ==
    /\ bt_pc = "loop"
    /\ Len(bt_results) < Len(bt_texts)
    /\ old_map' = entity_id_map
    /\ entity_id_map' = global_entity_map
    /\ bt_pc' = "call"
    /\ UNCHANGED <<rdVars, bt_texts, bt_entities, global_entity_map, bt_results,
                   issued, notRd>>

\* Line 248: result = self.redact(text, entities)
BatchRedactText ==
    /\ bt_pc = "call"
    /\ Redact(bt_texts[Len(bt_results) + 1], bt_entities[Len(bt_results) + 1],
              TRUE, TRUE)
    /\ issued' = record_issued(issued, entity_to_id')

\* Lines 249-252: the result is appended and the instance's map restored.
BatchCollect ==
    /\ bt_pc = "call"
    /\ rd_pc = "returned"
    /\ bt_results' = Append(bt_results,
                            [anonymized_text |-> anonymized_text,
                             replacements |-> redaction_details])
    /\ entity_id_map' = old_map
    /\ bt_pc' = "loop"
    /\ rd_text' = << >>
    /\ rd_entities' = << >>
    /\ numbered' = FALSE
    /\ consistent_ids' = FALSE
    /\ entity_to_id' = << >>
    /\ redaction_details' = << >>
    /\ re_identification_map' = << >>
    /\ anonymized_text' = << >>
    /\ used_at_call' = << >>
    /\ rd_pc' = "ready"
    /\ UNCHANGED <<used_ids_per_label, rd_calls, bt_texts, bt_entities,
                   global_entity_map, old_map, issued, notRd>>

\* Lines 256-257: return results
BatchReturn ==
    /\ bt_pc = "loop"
    /\ Len(bt_results) = Len(bt_texts)
    /\ bt_pc' = "returned"
    /\ UNCHANGED <<rdVars, entity_id_map, bt_texts, bt_entities,
                   global_entity_map, old_map, bt_results, issued, notRd>>

\* The caller has the result, or the ValueError; the locals are gone.
BatchExit ==
    /\ bt_pc \in {"returned", "raised"}
    /\ bt_texts' = << >>
    /\ bt_entities' = << >>
    /\ global_entity_map' = << >>
    /\ old_map' = << >>
    /\ bt_results' = << >>
    /\ bt_pc' = "ready"
    /\ UNCHANGED <<rdVars, entity_id_map, issued, notRd>>

\* The texts of a batch: one for every span list, and one more when extra.
BatchTexts(all, extra) ==
    [t \in 1..Len(all) |-> SourceText(all[t])]
        \o (IF extra THEN << << >> >> ELSE << >>)

BtNext ==
    \/ (/\ bt_pc = "ready"
        /\ rd_pc = "ready"
        /\ \E all \in SeqsUpTo(BatchEntityLists, MaxRedactCalls - rd_calls) :
              \E extra \in BOOLEAN : \E order \in SetOrders(all_entity_keys(all)) :
                 BatchStart(BatchTexts(all, extra), all, order))
    \/ BatchOverride
    \/ BatchRedactText
    \/ BatchCollect
    \/ BatchReturn
    \/ BatchExit
    \/ (/\ bt_pc = "ready"
        /\ rd_pc = "ready"
        /\ rd_calls < MaxRedactCalls
        /\ \E entities \in BatchEntityLists :
              /\ Redact(SourceText(entities), entities, TRUE, TRUE)
              /\ issued' = record_issued(issued, entity_to_id'))
    \/ (bt_pc = "ready" /\ RedactExit)
    \/ (bt_pc = "ready" /\ ClearHistory)

SpecBatch == BtInit /\ [][BtNext]_vars

\* ---------------------------------------------------- batch_redact: properties
\* The span of the k-th detail of the result for text t.
BatchSpan(t, k) == sort_by_start(bt_entities[t])[k]

\* C11 as stated: when batch_redact has returned, two spans of the batch with
\* the same (label, text), in whichever texts, have the same redaction id and
\* the same placeholder.
BatchConsistency ==
    bt_pc = "returned" =>
        \A t1, t2 \in 1..Len(bt_results) :
            \A k1 \in 1..Len(bt_results[t1].replacements) :
                \A k2 \in 1..Len(bt_results[t2].replacements) :
                    SameKey(BatchSpan(t1, k1), BatchSpan(t2, k2)) =>
                        /\ bt_results[t1].replacements[k1].redaction_id
                              = bt_results[t2].replacements[k2].redaction_id
                        /\ bt_results[t1].replacements[k1].placeholder
                              = bt_results[t2].replacements[k2].placeholder

\* C12 as stated: the id a (label, text) pair has in a returned redact call
\* is the id it was first given since construction or the last clear_history.
IdentityMapPersists ==
    rd_pc = "returned" =>
        \A k \in DOMAIN entity_to_id : entity_to_id[k] = issued[k]

\* ------------------------------------------- redact: substitution in the text
MaxWords == 2
MaxSubstEntities == 2

\* The words the texts are made of: two names, and a word that reads as the
\* placeholder a fresh Redactor gives its first person.
Marker == format_placeholder(str(1), upper(<<"p", "e", "r", "s", "o", "n">>))

Words == {<<"J", "o", "h", "n">>, <<"P", "a", "r", "i", "s">>, Marker}

SubstLabels == {<<"p", "e", "r", "s", "o", "n">>,
                <<"l", "o", "c", "a", "t", "i", "o", "n">>}

\* The words joined by single blanks.
RECURSIVE JoinBlank(_)
JoinBlank(ws) ==
    IF ws = << >> THEN << >>
    ELSE IF Len(ws) = 1 THEN ws[1]
    ELSE ws[1] \o <<" ">> \o JoinBlank(Tail(ws))

\* The offset of the i-th word in JoinBlank(ws).
RECURSIVE WordStart(_, _)
WordStart(ws, i) ==
    IF i = 1 THEN 0 ELSE WordStart(ws, i - 1) + Len(ws[i - 1]) + 1

\* The spans that can be taken from the text of these words: a label, and a
\* run of words none of which is the marker, with the text of that range.
WordSpans(ws) ==
    {[label |-> l,
      text |-> PySlice(JoinBlank(ws), WordStart(ws, i), WordStart(ws, j) + Len(ws[j])),
      start |-> WordStart(ws, i),
      end |-> WordStart(ws, j) + Len(ws[j])] :
     l \in SubstLabels,
     <<i, j>> \in {r \in (1..Len(ws)) \X (1..Len(ws)) :
                     /\ r[1] <= r[2]
                     /\ \A k \in r[1]..r[2] : ws[k] # Marker}}

\* One redact call on a Redactor just constructed: a text of up to MaxWords
\* words and up to MaxSubstEntities of its spans, in any order, overlapping
\* or not.
SbNext ==
    \/ (/\ rd_pc = "ready"
        /\ rd_calls = 0
        /\ \E ws \in SeqsUpTo(Words, MaxWords) :
              \E entities \in SeqsUpTo(WordSpans(ws), MaxSubstEntities) :
                  \E num, cons \in BOOLEAN :
                      /\ Redact(JoinBlank(ws), entities, num, cons)
                      /\ UNCHANGED issued)
    \/ RedactExit

SpecSubstitute == RdInit /\ [][SbNext]_vars

\* The spans are in bounds and no two of them overlap.
DisjointInBounds(entities, txt) ==
    /\ \A i \in 1..Len(entities) :
          /\ 0 <= entities[i].start
          /\ entities[i].start < entities[i].end
          /\ entities[i].end <= Len(txt)
    /\ \A i, j \in 1..Len(entities) :
          i # j => \/ entities[i].end <= entities[j].start
                   \/ entities[j].end <= entities[i].start

\* txt from offset pos on, with the range of each detail, taken left to
\* right, replaced by the detail's placeholder.
RECURSIVE SubstituteFrom(_, _, _)
SubstituteFrom(txt, details, pos) ==
    IF details = << >> THEN PySlice(txt, pos, Len(txt))
    ELSE PySlice(txt, pos, details[1].start) \o details[1].placeholder
            \o SubstituteFrom(txt, Tail(details), details[1].end)

\* C13: when redact returns for spans that are in bounds and pairwise
\* non-overlapping, in whatever order they were given, there is one detail per
\* span, and anonymized_text is the original text with each span's range
\* replaced by the span's placeholder and every other character unchanged and
\* in place.
OffsetSafeSubstitution ==
    (rd_pc = "returned" /\ DisjointInBounds(rd_entities, rd_text)) =>
        LET spans == sort_by_start(rd_entities)
        IN  /\ Len(redaction_details) = Len(spans)
            /\ \A k \in 1..Len(spans) :
                  /\ redaction_details[k].start = spans[k].start
                  /\ redaction_details[k].end = spans[k].end
            /\ anonymized_text = SubstituteFrom(rd_text, redaction_details, 0)

\* Two non-overlapping spans given in ascending order and replaced by
\* placeholders longer than they are, in a text with characters outside them.
OffsetSafeSubstitutionWitness ==
    /\ rd_pc = "returned"
    /\ DisjointInBounds(rd_entities, rd_text)
    /\ Len(rd_entities) = 2
    /\ rd_entities[1].start < rd_entities[2].start
    /\ rd_entities[1].end < rd_entities[2].start
    /\ \A k \in 1..2 :
          Len(redaction_details[k].placeholder)
             > redaction_details[k].end - redaction_details[k].start
    /\ Len(anonymized_text) > Len(rd_text)

\* p occurs in txt.
Occurs(p, txt) ==
    \E i \in 1..(Len(txt) - Len(p) + 1) : SubSeq(txt, i, i + Len(p) - 1) = p

\* The placeholders of reid that txt reads at offset pos.
PlaceholdersAt(txt, pos, reid) ==
    {p \in DOMAIN reid : PySlice(txt, pos, pos + Len(p)) = p}

\* txt from offset pos on, read left to right, with every placeholder of
\* reid replaced by its entry.
RECURSIVE ReidentifyFrom(_, _, _)
ReidentifyFrom(txt, pos, reid) ==
    IF pos >= Len(txt) THEN << >>
    ELSE IF PlaceholdersAt(txt, pos, reid) # {}
    THEN LET p == CHOOSE q \in PlaceholdersAt(txt, pos, reid) : TRUE
         IN  reid[p] \o ReidentifyFrom(txt, pos + Len(p), reid)
    ELSE <<txt[pos + 1]>> \o ReidentifyFrom(txt, pos + 1, reid)

Reidentify(txt, reid) == ReidentifyFrom(txt, 0, reid)

\* A numbered redact call with consistent ids has returned, for spans that
\* are in bounds, pairwise non-overlapping, and carry the text of their range.
ReversibleRun ==
    /\ ConsistentRun
    /\ DisjointInBounds(rd_entities, rd_text)
    /\ \A i \in 1..Len(rd_entities) :
          rd_entities[i].text
             = PySlice(rd_text, rd_entities[i].start, rd_entities[i].end)

\* The re-identification map gives every detail's placeholder its original.
MapGivesOriginals ==
    \A k \in 1..Len(redaction_details) :
        /\ redaction_details[k].placeholder \in DOMAIN re_identification_map
        /\ re_identification_map[redaction_details[k].placeholder]
              = redaction_details[k].original

\* C14 as stated: after such a run the map gives every detail's placeholder
\* its original, and replacing the placeholders in anonymized_text by their
\* entries gives the original text.
ReversibleAsStated ==
    ReversibleRun =>
        /\ MapGivesOriginals
        /\ Reidentify(anonymized_text, re_identification_map) = rd_text

\* C14: after such a run the map gives every detail's placeholder its
\* original, and if none of the run's placeholders occurs in the original
\* text, replacing the placeholders in anonymized_text by their entries
\* gives the original text.
Reversible ==
    ReversibleRun =>
        /\ MapGivesOriginals
        /\ (\A p \in DOMAIN re_identification_map : ~Occurs(p, rd_text)) =>
              Reidentify(anonymized_text, re_identification_map) = rd_text

\* Two spans with different placeholders redacted and read back.
ReversibleWitness ==
    /\ ReversibleRun
    /\ Len(redaction_details) = 2
    /\ redaction_details[1].placeholder # redaction_details[2].placeholder
    /\ \A p \in DOMAIN re_identification_map : ~Occurs(p, rd_text)
    /\ anonymized_text # rd_text
    /\ Reidentify(anonymized_text, re_identification_map) = rd_text

\* ------------------------------------------------------------------ replacer
MaxReplaceEntities == 2
MaxReplaceCalls == 2

\* The labels of the spans given to replace, and str.lower() of each.
ReplaceLabels == {"person", "Person", "location", "misc"}

LowerOfLabel ==
    [l \in ReplaceLabels |-> IF l = "Person" THEN "person" ELSE l]

lower_label(l) == LowerOfLabel[l]

\* The letters the generated values are made of.
ValueLetters == {"A", "B", "C"}

\* The (label, text) pairs of the spans given to replace.
ReplaceKeys ==
    {<<"person", <<"A">>>>, <<"Person", <<"A">>>>, <<"location", <<"A">>>>,
     <<"misc", <<"B">>>>}

\* The span lists of up to n spans given to replace: the i-th span is the
\* i-th word of the text.
ReplaceEntityLists(n) ==
    {[i \in 1..Len(ks) |->
        [label |-> ks[i][1], text |-> ks[i][2],
         start |-> 2 * (i - 1), end |-> 2 * (i - 1) + Len(ks[i][2])]] :
     ks \in SeqsUpTo(ReplaceKeys, n)}

\* The text the spans of such a list are taken from.
ReplaceText(entities) == JoinBlank([i \in 1..Len(entities) |-> entities[i].text])

\* The custom_strategies arguments: none, or a strategy forced for person.
CustomStrategies ==
    {<< >>, [l \in {"person"} |-> "date"], [l \in {"person"} |-> "default"]}

\* self.strategy_mapping of _init_strategies.
StrategyMapping ==
    [person |-> <<"faker", "default">>,
     location |-> <<"country", "faker", "default">>,
     date |-> <<"date", "faker", "default">>,
     organization |-> <<"faker", "default">>,
     company |-> <<"faker", "default">>,
     email |-> <<"faker", "default">>,
     phone |-> <<"faker", "default">>,
     address |-> <<"faker", "default">>,
     age |-> <<"faker", "default">>,
     nationality |-> <<"country", "default">>,
     country |-> <<"country", "default">>]

\* custom_strategies.get(label)
custom_strategy(custom, label) ==
    IF label \in DOMAIN custom THEN custom[label] ELSE ""

\* strategies_to_try of _get_replacement.
strategies_to_try(label, custom) ==
    IF custom # "" THEN <<custom>>
    ELSE IF label \in DOMAIN StrategyMapping THEN StrategyMapping[label]
    ELSE <<"faker", "default">>

\* self.strategies.get(strategy_name) is an object: 'faker' is None without
\* Faker, and so is a name that is not a key.
strategy_present(name) ==
    \/ name \in {"country", "date", "default"}
    \/ name = "faker" /\ faker_available

FakerLabels ==
    {"person", "name", "first_name", "last_name", "email", "phone", "address",
     "company", "organization", "city", "state", "country", "age", "job",
     "profession"}

CountryLabels == {"country", "location", "nationality", "place"}

DateLabels ==
    {"date", "time", "datetime", "day", "month", "year", "birthday", "dob",
     "date_of_birth"}

\* strategy.can_handle(label) of the four strategy classes.
can_handle(name, label) ==
    CASE name = "faker" -> faker_available /\ label \in FakerLabels
      [] name = "country" -> label \in CountryLabels
      [] name = "date" -> label \in DateLabels
      [] OTHER -> TRUE

\* What DefaultReplacementStrategy.get_replacement can return for a text of
\* upper-case letters: any text of upper-case letters of the same length,
\* the original among them.
default_get_replacement(original) == [1..Len(original) -> ValueLetters]

\* What get_replacement of another strategy can do: raise, return None or
\* the empty string, or return a generated value, which may be the original.
StrategyOutcomes ==
    {[kind |-> "raise", value |-> << >>], [kind |-> "none", value |-> << >>]}
       \cup {[kind |-> "value", value |-> v] : v \in [1..1 -> ValueLetters]}

\* if replacement and replacement != original_text
usable(outcome, original) ==
    outcome.kind = "value" /\ outcome.value # << >> /\ outcome.value # original

\* if consistency: self.replacement_cache[cache_key] = (replacement, name)
cache_put_never(cache, consistency, key, replacement, name) == cache

cache_put(cache, consistency, key, replacement, name) ==
    IF consistency THEN SetItem(cache, key, <<replacement, name>>) ELSE cache

\* The fallback of _get_replacement after the loop: the default strategy,
\* whose value is returned as it is.
Fallback(entity, cache, consistency, trace) ==
    {[replacement |-> v, strategy_used |-> "default", cached |-> FALSE,
      cache |-> cache_put(cache, consistency,
                          <<lower_label(entity.label), entity.text>>, v, "default"),
      trace |-> Append(trace, <<"default", [kind |-> "value", value |-> v]>>)] :
     v \in default_get_replacement(entity.text)}

\* What a strategy can return for the entity.
outcomes_of(name, entity) ==
    IF name = "default"
    THEN {[kind |-> "value", value |-> v] : v \in default_get_replacement(entity.text)}
    ELSE StrategyOutcomes

\* A loop that does not return at the first usable value but goes on and
\* returns the last one.
RECURSIVE TryLast(_, _, _, _, _, _)
TryLast(names, entity, cache, consistency, trace, best) ==
    IF names = << >>
    THEN IF best = << >> THEN Fallback(entity, cache, consistency, trace)
         ELSE {[replacement |-> best[2], strategy_used |-> best[1],
                cached |-> FALSE,
                cache |-> cache_put(cache, consistency,
                                    <<lower_label(entity.label), entity.text>>,
                                    best[2], best[1]),
                trace |-> trace]}
    ELSE LET name == Head(names)
         IN  IF ~(strategy_present(name) /\ can_handle(name, lower_label(entity.label)))
             THEN TryLast(Tail(names), entity, cache, consistency, trace, best)
             ELSE UNION {TryLast(Tail(names), entity, cache, consistency,
                                 Append(trace, <<name, o>>),
                                 IF usable(o, entity.text) THEN <<name, o.value>> ELSE best) :
                         o \in outcomes_of(name, entity)}

try_strategies_to_the_last(names, entity, cache, consistency, trace) ==
    TryLast(names, entity, cache, consistency, trace, << >>)

\* The loop of _get_replacement over the strategies still to try: every way
\* it can end, with the value and strategy returned, the cache afterwards and
\* the strategies invoked with what each did.
RECURSIVE try_strategies(_, _, _, _, _)
try_strategies(names, entity, cache, consistency, trace) ==
    IF names = << >> THEN Fallback(entity, cache, consistency, trace)
    ELSE LET name == Head(names)
         IN  IF ~(strategy_present(name) /\ can_handle(name, lower_label(entity.label)))
             THEN try_strategies(Tail(names), entity, cache, consistency, trace)
             ELSE UNION {IF usable(o, entity.text)
                         THEN {[replacement |-> o.value, strategy_used |-> name,
                                cached |-> FALSE,
                                cache |-> cache_put(cache, consistency,
                                                    <<lower_label(entity.label), entity.text>>,
                                                    o.value, name),
                                trace |-> Append(trace, <<name, o>>)]}
                         ELSE try_strategies(Tail(names), entity, cache,
                                             consistency, Append(trace, <<name, o>>)) :
                         o \in outcomes_of(name, entity)}

\* A _get_replacement that does not look the pair up in the cache first.
_get_replacement_without_lookup(entity, cache, consistency, custom) ==
    try_strategies(strategies_to_try(lower_label(entity.label), custom),
                   entity, cache, consistency, << >>)

\* _get_replacement(entity, consistency, custom_strategy): every way it can
\* return.
_get_replacement(entity, cache, consistency, custom) ==
    LET cache_key == <<lower_label(entity.label), entity.text>>
    IN  IF consistency /\ cache_key \in DOMAIN cache
        THEN {[replacement |-> cache[cache_key][1],
               strategy_used |-> cache[cache_key][2], cached |-> TRUE,
               cache |-> cache, trace |-> << >>]}
        ELSE try_strategies(strategies_to_try(lower_label(entity.label), custom),
                            entity, cache, consistency, << >>)

RpInit ==
    /\ faker_available \in BOOLEAN
    /\ replacement_cache = << >>
    /\ rp_text = << >>
    /\ rp_entities = << >>
    /\ rp_consistency = FALSE
    /\ rp_custom = << >>
    /\ rp_todo = << >>
    /\ replaced_text = << >>
    /\ replacement_details = << >>
    /\ rp_last = << >>
    /\ rp_results = << >>
    /\ rp_calls = 0
    /\ rp_pc = "ready"
    /\ CoreIdle /\ MgIdle /\ VlIdle /\ AppIdle

\* A replace that empties the consistency cache when it is called.
ReplaceStart_clearing_cache(txt, entities, consistency, custom) ==
    /\ rp_pc = "ready"
    /\ rp_calls < MaxReplaceCalls
    /\ rp_calls' = rp_calls + 1
    /\ rp_text' = txt
    /\ rp_entities' = entities
    /\ rp_consistency' = consistency
    /\ rp_custom' = custom
    /\ rp_todo' = sorted_entities(entities)
    /\ replaced_text' = txt
    /\ replacement_details' = << >>
    /\ rp_last' = << >>
    /\ rp_results' = << >>
    /\ rp_pc' = IF entities = << >> THEN "returned" ELSE "loop"
    /\ replacement_cache' = << >>
    /\ UNCHANGED <<faker_available, notRp>>

\* replace(txt, entities, ensure_consistency, custom_strategies) up to its
\* loop, or to its return when there are no entities.
ReplaceStart(txt, entities, consistency, custom) ==
    /\ rp_pc = "ready"
    /\ rp_calls < MaxReplaceCalls
    /\ rp_calls' = rp_calls + 1
    /\ rp_text' = txt
    /\ rp_entities' = entities
    /\ rp_consistency' = consistency
    /\ rp_custom' = custom
    /\ rp_todo' = sorted_entities(entities)
    /\ replaced_text' = txt
    /\ replacement_details' = << >>
    /\ rp_last' = << >>
    /\ rp_results' = << >>
    /\ rp_pc' = IF entities = << >> THEN "returned" ELSE "loop"
    /\ UNCHANGED <<faker_available, replacement_cache, notRp>>

\* One turn of the loop of replace: _get_replacement for the next entity and
\* the substitution when the value is usable.
ReplaceEntity ==
    /\ rp_pc = "loop"
    /\ rp_todo # << >>
    /\ LET entity == Head(rp_todo)
           label == lower_label(entity.label)
       IN  \E got \in _get_replacement(entity, replacement_cache, rp_consistency,
                                       custom_strategy(rp_custom, label)) :
              LET applied == got.replacement # << >> /\ got.replacement # entity.text
                  detail == [label |-> label, original |-> entity.text,
                             replacement |-> got.replacement,
                             start |-> entity.start, end |-> entity.end,
                             strategy_used |-> got.strategy_used,
                             cached |-> got.cached]
              IN  /\ replacement_cache' = got.cache
                  /\ replaced_text' =
                        IF applied
                        THEN PySlice(replaced_text, 0, entity.start) \o got.replacement
                                \o PySlice(replaced_text, entity.end, Len(replaced_text))
                        ELSE replaced_text
                  /\ replacement_details' =
                        IF applied THEN Append(replacement_details, detail)
                        ELSE replacement_details
                  /\ rp_last' = [entity |-> entity, cached |-> got.cached,
                                 trace |-> got.trace,
                                 replacement |-> got.replacement,
                                 strategy_used |-> got.strategy_used]
                  /\ rp_results' = Append(rp_results,
                                          [entity |-> entity,
                                           replacement |-> got.replacement,
                                           applied |-> applied])
    /\ rp_todo' = Tail(rp_todo)
    /\ UNCHANGED <<faker_available, rp_text, rp_entities, rp_consistency,
                   rp_custom, rp_calls, rp_pc, notRp>>

\* The end of replace: the details sorted by start, and the result.
ReplaceReturn ==
    /\ rp_pc = "loop"
    /\ rp_todo = << >>
    /\ replacement_details' = sort_by_start(replacement_details)
    /\ rp_pc' = "returned"
    /\ UNCHANGED <<faker_available, replacement_cache, rp_text, rp_entities,
                   rp_consistency, rp_custom, rp_todo, replaced_text, rp_last,
                   rp_results, rp_calls, notRp>>

\* The caller has the result; the locals of the call are gone.
ReplaceExit ==
    /\ rp_pc = "returned"
    /\ rp_text' = << >>
    /\ rp_entities' = << >>
    /\ rp_consistency' = FALSE
    /\ rp_custom' = << >>
    /\ rp_todo' = << >>
    /\ replaced_text' = << >>
    /\ replacement_details' = << >>
    /\ rp_last' = << >>
    /\ rp_results' = << >>
    /\ rp_pc' = "ready"
    /\ UNCHANGED <<faker_available, replacement_cache, rp_calls, notRp>>

\* clear_cache()
ClearCache ==
    /\ rp_pc = "ready"
    /\ replacement_cache # << >>
    /\ replacement_cache' = << >>
    /\ UNCHANGED <<faker_available, rp_text, rp_entities, rp_consistency,
                   rp_custom, rp_todo, replaced_text, replacement_details,
                   rp_last, rp_results, rp_calls, rp_pc, notRp>>

\* Calls of replace on one Replacer, each call after the first with a list
\* one span shorter, and clear_cache between calls.
RpNext ==
    \/ (/\ rp_pc = "ready"
        /\ rp_calls < MaxReplaceCalls
        /\ \E entities \in ReplaceEntityLists(MaxReplaceEntities - rp_calls) :
              \E consistency \in BOOLEAN :
              \E custom \in CustomStrategies :
                  ReplaceStart(ReplaceText(entities), entities, consistency, custom))
    \/ ReplaceEntity
    \/ ReplaceReturn
    \/ ReplaceExit
    \/ ClearCache

SpecReplace == RpInit /\ [][RpNext]_vars

\* ------------------------------------------------------ replacer: properties
\* C15: in a replace run with consistency enabled, at every point of the run
\* and whatever the strategies return when invoked again, two processed spans
\* with the same (label, text) were given the same value, both substituted or
\* both not, and two details with the same label and original carry the same
\* replacement.
ReplacementConsistency ==
    (rp_pc \in {"loop", "returned"} /\ rp_consistency) =>
        /\ \A i, j \in 1..Len(rp_results) :
              SameKey(rp_results[i].entity, rp_results[j].entity) =>
                  /\ rp_results[i].replacement = rp_results[j].replacement
                  /\ rp_results[i].applied = rp_results[j].applied
        /\ \A i, j \in 1..Len(replacement_details) :
              (/\ replacement_details[i].label = replacement_details[j].label
               /\ replacement_details[i].original = replacement_details[j].original) =>
                  replacement_details[i].replacement
                     = replacement_details[j].replacement

\* A run with consistency that returned two details for one (label, text):
\* the span processed first drew its value from a strategy, the other span
\* had it from the cache.
ReplacementConsistencyWitness ==
    /\ rp_pc = "returned"
    /\ rp_consistency
    /\ Len(replacement_details) = 2
    /\ SameKey(rp_entities[1], rp_entities[2])
    /\ replacement_details[1].cached
    /\ ~replacement_details[2].cached
    /\ replacement_details[1].replacement = replacement_details[2].replacement

\* C16 as stated: replace records a replacement for every input span, so
\* when it returns replacements_applied equals entities_processed.
DefaultAlwaysSucceeds ==
    rp_pc = "returned" =>
        /\ Len(replacement_details) = Len(rp_entities)
        /\ \A i \in 1..Len(rp_results) : rp_results[i].applied

\* The strategies of the chain that are objects and can handle the label.
eligible_strategies(chain, label) ==
    SelectSeq(chain, LAMBDA name : strategy_present(name) /\ can_handle(name, label))

\* C17: for the span just processed, when it was not served from the cache,
\* the strategies invoked are the eligible strategies of its chain (the
\* label's chain, or the single overriding strategy), in chain order, up to
\* the first that returned a usable value; every one before it returned
\* nothing usable; none was invoked after it and its value and name are what
\* _get_replacement returned; if none returned a usable value, one final call
\* of the default strategy followed and its value was returned. Chains that
\* are not overridden end with default.
StrategyChainOrder ==
    (rp_pc \in {"loop", "returned"} /\ rp_last # << >> /\ ~rp_last.cached) =>
        LET e == rp_last.entity
            label == lower_label(e.label)
            chain == strategies_to_try(label, custom_strategy(rp_custom, label))
            eligible == eligible_strategies(chain, label)
            tr == rp_last.trace
            n == Len(tr)
            m == Len(eligible)
        IN  /\ n >= 1
            /\ n <= m + 1
            /\ \A j \in 1..(n - 1) :
                  /\ j <= m
                  /\ tr[j][1] = eligible[j]
                  /\ ~usable(tr[j][2], e.text)
            /\ rp_last.replacement = tr[n][2].value
            /\ rp_last.strategy_used = tr[n][1]
            /\ IF n <= m
               THEN tr[n][1] = eligible[n] /\ usable(tr[n][2], e.text)
               ELSE tr[n][1] = "default" /\ tr[n][2].kind = "value"
            /\ custom_strategy(rp_custom, label) = "" =>
                  chain[Len(chain)] = "default"

\* A location span with Faker installed: the country strategy was invoked and
\* returned nothing usable, the Faker strategy cannot handle the label and
\* was passed over, and the default strategy, third in the chain, gave the
\* value.
StrategyChainOrderWitness ==
    /\ rp_pc \in {"loop", "returned"}
    /\ rp_last # << >>
    /\ ~rp_last.cached
    /\ faker_available
    /\ rp_last.entity.label = "location"
    /\ Len(rp_last.trace) = 2
    /\ rp_last.trace[1][1] = "country"
    /\ ~usable(rp_last.trace[1][2], rp_last.entity.text)
    /\ rp_last.trace[2][1] = "default"
    /\ usable(rp_last.trace[2][2], rp_last.entity.text)
    /\ rp_last.strategy_used = "default"

\* -------------------------------------------------------------------- merger
MaxMergeEntities == 3
MaxMergeCalls == 1
DefaultMaxGap == 1

\* The text the spans are taken from.
MergeText == <<"J", "o", "h", "n", " ", "S", "m", "i", "t", "h">>

\* The ranges of the spans given to merge: "John" and "Smith" (Scenario C),
\* ranges that touch, that lie two apart, that overlap, and one inside
\* another.
MergeRanges ==
    {<<0, 4>>, <<5, 10>>, <<4, 6>>, <<6, 10>>, <<2, 5>>, <<0, 10>>}

\* ------------------------------------------------------ merger: float scores
\* The scores are Python floats (IEEE 754 binary64).  A natural number of any
\* size is the sequence of its digits in base LimbBase, lowest first and
\* without a zero at the top; a float is m * 2^e with m such a number of
\* exactly MantissaBits bits, or m = 0.  Scores lie far from both ends of the
\* exponent range, which is left unbounded.  A value that is used more than
\* once is handed on as the argument of an operator.
MantissaBits == 53
LimbBase == 2 ^ 15

\* The number of bits of a number below LimbBase^2.
RECURSIVE BitsFrom(_, _)
BitsFrom(n, bits) ==
    IF n = 0 THEN bits
    ELSE IF n >= 256 THEN BitsFrom(n \div 256, bits + 8)
    ELSE IF n >= 16 THEN BitsFrom(n \div 16, bits + 4)
    ELSE BitsFrom(n \div 2, bits + 1)

BitsOf(n) == BitsFrom(n, 0)

\* The bits of a digit.
LimbBits == BitsOf(LimbBase) - 1

RECURSIVE Trim(_)
Trim(a) ==
    IF a # << >> /\ a[Len(a)] = 0 THEN Trim(SubSeq(a, 1, Len(a) - 1)) ELSE a

\* The number k < LimbBase^2 as digits.
NatOf(k) == Trim(<<k % LimbBase, k \div LimbBase>>)

Rest(a) == IF a = << >> THEN << >> ELSE Tail(a)
Low(a) == IF a = << >> THEN 0 ELSE a[1]

\* a + b + carry
RECURSIVE AddNat(_, _, _)
AddNat(a, b, carry) ==
    IF a = << >> /\ b = << >>
    THEN (IF carry = 0 THEN << >> ELSE <<carry>>)
    ELSE LET x == Low(a) + Low(b) + carry
         IN  <<x % LimbBase>> \o AddNat(Rest(a), Rest(b), x \div LimbBase)

\* a - b - borrow, for a >= b + borrow; the top is not trimmed.
RECURSIVE SubFrom(_, _, _)
SubFrom(a, b, borrow) ==
    IF a = << >> THEN << >>
    ELSE LET x == a[1] - Low(b) - borrow
         IN  <<x % LimbBase>> \o SubFrom(Tail(a), Rest(b), IF x < 0 THEN 1 ELSE 0)

\* a * k + carry, for 0 <= k <= LimbBase
RECURSIVE MulSmall(_, _, _)
MulSmall(a, k, carry) ==
    IF a = << >> THEN (IF carry = 0 THEN << >> ELSE <<carry>>)
    ELSE LET x == a[1] * k + carry
         IN  <<x % LimbBase>> \o MulSmall(Tail(a), k, x \div LimbBase)

\* The digits i..1 of a divided by k, 0 < k <= LimbBase, with rem carried in
\* from above: the quotient and the remainder.
DivStep(lower, digit) == [q |-> Append(lower.q, digit), r |-> lower.r]

RECURSIVE DivFrom(_, _, _, _)
DivFrom(a, k, i, rem) ==
    IF i = 0 THEN [q |-> << >>, r |-> rem]
    ELSE DivStep(DivFrom(a, k, i - 1, (rem * LimbBase + a[i]) % k),
                 (rem * LimbBase + a[i]) \div k)

Trimmed(d) == [q |-> Trim(d.q), r |-> d.r]

DivSmall(a, k) == Trimmed(DivFrom(a, k, Len(a), 0))

\* -1, 0 or 1 as a < b, a = b or a > b, read from digit i down.
RECURSIVE CmpFrom(_, _, _)
CmpFrom(a, b, i) ==
    IF i = 0 THEN 0
    ELSE IF a[i] < b[i] THEN -1
    ELSE IF a[i] > b[i] THEN 1
    ELSE CmpFrom(a, b, i - 1)

CmpNat(a, b) ==
    IF Len(a) < Len(b) THEN -1
    ELSE IF Len(a) > Len(b) THEN 1
    ELSE CmpFrom(a, b, Len(a))

\* |a - b|
DiffNat(a, b) ==
    IF CmpNat(a, b) >= 0 THEN Trim(SubFrom(a, b, 0)) ELSE Trim(SubFrom(b, a, 0))

\* The number of bits of a.
BitLength(a) ==
    IF a = << >> THEN 0 ELSE (Len(a) - 1) * LimbBits + BitsOf(a[Len(a)])

\* a * 2^n
ShiftLeft(a, n) ==
    IF a = << >> \/ n = 0 THEN a
    ELSE [i \in 1..(n \div LimbBits) |-> 0] \o MulSmall(a, 2 ^ (n % LimbBits), 0)

\* a \div 2^n
ShiftRight(a, n) ==
    DivSmall(SubSeq(a, n \div LimbBits + 1, Len(a)), 2 ^ (n % LimbBits)).q

IsOdd(a) == Low(a) % 2 = 1

\* A mantissa that rounding up took to MantissaBits + 1 bits is halved.
Renormalized(r, e) ==
    IF BitLength(r) > MantissaBits
    THEN [m |-> ShiftRight(r, 1), e |-> e + 1]
    ELSE [m |-> r, e |-> e]

\* q is n without the bits that go.  Of those, top (the remainder of the
\* division, or the highest digit that went whole) is compared with half a
\* unit; rounded up when they are more than half a unit, or half a unit and
\* q is odd.
RoundedUp(q, e, top, half, more_below) ==
    IF top > half \/ (top = half /\ (more_below \/ IsOdd(q)))
    THEN Renormalized(AddNat(q, << >>, 1), e)
    ELSE [m |-> q, e |-> e]

\* n without its last LimbBits * whole + part bits, d being the division of
\* the digits above the whole ones by 2^part.
RoundedAt(n, e, whole, part, d) ==
    IF part > 0
    THEN RoundedUp(d.q, e, d.r, 2 ^ (part - 1),
                   \E i \in 1..whole : n[i] # 0)
    ELSE RoundedUp(d.q, e, n[whole], LimbBase \div 2,
                   \E i \in 1..(whole - 1) : n[i] # 0)

\* n * 2^e rounded to MantissaBits bits, drop > 0 being the bits that go.
RoundedBy(n, e, drop) ==
    RoundedAt(n, e + drop, drop \div LimbBits, drop % LimbBits,
              DivSmall(SubSeq(n, drop \div LimbBits + 1, Len(n)),
                       2 ^ (drop % LimbBits)))

RoundedFrom(n, e, len) ==
    IF len = 0 THEN [m |-> << >>, e |-> 0]
    ELSE IF len <= MantissaBits
    THEN [m |-> ShiftLeft(n, MantissaBits - len), e |-> e - (MantissaBits - len)]
    ELSE RoundedBy(n, e, len - MantissaBits)

\* The float nearest to n * 2^e, of two equally near ones the one with the
\* even mantissa.
round_to_float(n, e) == RoundedFrom(n, e, BitLength(n))

\* float(k) of an int 0 <= k < LimbBase
float_of_int(k) == round_to_float(NatOf(k), 0)

\* x * k of a float and an int 0 <= k < LimbBase
float_times_int(x, k) == round_to_float(Trim(MulSmall(x.m, k, 0)), x.e)

\* x + y of two floats
float_add(x, y) ==
    LET e == IF x.e < y.e THEN x.e ELSE y.e
    IN  round_to_float(AddNat(ShiftLeft(x.m, x.e - e), ShiftLeft(y.m, y.e - e), 0), e)

\* x / k of a float and an int 0 < k < LimbBase: the quotient of the mantissa
\* with GuardBits more bits, which leaves two bits or more to go, the last of
\* them set when the division left a remainder.
GuardBits == LimbBits + 2
WithRemainderBit(d) ==
    IF d.r # 0 /\ d.q[1] % 2 = 0 THEN [d.q EXCEPT ![1] = @ + 1] ELSE d.q
float_over_int(x, k) ==
    IF x.m = << >> THEN x
    ELSE round_to_float(WithRemainderBit(DivSmall(ShiftLeft(x.m, GuardBits), k)),
                        x.e - GuardBits)

\* The float of the literal 0.k, k tenths.
TenthsAsFloats == [k \in 0..10 |-> float_over_int(float_of_int(k), 10)]
float_of_tenths(k) == TenthsAsFloats[k]

\* The scores of the spans: 0.9 and 0.6.
MergeScores == {float_of_tenths(9), float_of_tenths(6)}

\* The spans given to merge: persons in every range with either score, and
\* a location with the score 0.9.
MergeSpans ==
    {[label |-> l, text |-> PySlice(MergeText, r[1], r[2]), start |-> r[1],
      end |-> r[2], score |-> sc] :
     l \in {"person"}, r \in MergeRanges, sc \in MergeScores}
    \cup
    {[label |-> l, text |-> PySlice(MergeText, r[1], r[2]), start |-> r[1],
      end |-> r[2], score |-> sc] :
     l \in {"location"}, r \in {<<4, 6>>}, sc \in {float_of_tenths(9)}}

\* (score + next_score) / 2: the mean of the running score and the next one.
plain_average(score, count, next_score) ==
    float_over_int(float_add(score, next_score), 2)

\* (current["score"] * current["count"] + next_entity["score"])
\*    / (current["count"] + 1), each operation rounded to a float.
weighted_average(score, count, next_score) ==
    float_over_int(float_add(float_times_int(score, count), next_score),
                   count + 1)

\* The condition of merge and of can_merge.
can_merge(entity1, entity2, gap) ==
    /\ entity1.label = entity2.label
    /\ \/ entity2.start = entity1.end
       \/ entity2.start <= entity1.end + gap

\* entity.copy() with current["count"] = 1
with_count(entity) ==
    [f \in DOMAIN entity \cup {"count"} |-> IF f = "count" THEN 1 ELSE entity[f]]

\* current.pop("count", None)
pop_count(current) == [f \in DOMAIN current \ {"count"} |-> current[f]]

\* The loop of merge over the rest of the sorted list, and the append of the
\* last candidate: the merged list, what each turn did, and the scores of the
\* spans that went into each returned span.
RECURSIVE MergeLoop(_, _, _, _, _, _, _, _)
MergeLoop(rest, txt, gap, current, merged, steps, parts, current_parts) ==
    IF rest = << >>
    THEN [merged |-> Append(merged, pop_count(current)), steps |-> steps,
          parts |-> Append(parts, current_parts)]
    ELSE LET next_entity == Head(rest)
         IN  IF can_merge(current, next_entity, gap)
             THEN MergeLoop(Tail(rest), txt, gap,
                            [current EXCEPT
                                !.text = strip(PySlice(txt, current.start, next_entity.end)),
                                !.end = next_entity.end,
                                !.score = weighted_average(current.score, current.count,
                                                           next_entity.score),
                                !.count = current.count + 1],
                            merged,
                            Append(steps, [current |-> current, next |-> next_entity,
                                           merged |-> TRUE]),
                            parts, Append(current_parts, next_entity.score))
             ELSE MergeLoop(Tail(rest), txt, gap, with_count(next_entity),
                            Append(merged, pop_count(current)),
                            Append(steps, [current |-> current, next |-> next_entity,
                                           merged |-> FALSE]),
                            Append(parts, current_parts), <<next_entity.score>>)

\* merge(entities, text) for a list that is not empty, after the sort.
merge(entities, txt, gap) ==
    LET sorted == sort_by_start(entities)
    IN  MergeLoop(Tail(sorted), txt, gap, with_count(sorted[1]), << >>, << >>,
                  << >>, <<sorted[1].score>>)

\* self.merge_stats after a call that turned entities into merged.
stats_after(stats, entities, merged) ==
    [total_processed |-> stats.total_processed + Len(entities),
     total_merged |-> stats.total_merged + (Len(entities) - Len(merged)),
     merges_by_label |->
        [l \in DOMAIN stats.merges_by_label \cup {entities[i].label : i \in 1..Len(entities)} |->
            IF l \in DOMAIN stats.merges_by_label THEN stats.merges_by_label[l] ELSE 0]]

NoMergeStats == [total_processed |-> 0, total_merged |-> 0, merges_by_label |-> << >>]

\* EntityMerger(max_gap): the default gap, none, or two.
MgInit ==
    /\ max_gap \in {0, DefaultMaxGap, 2}
    /\ merge_stats = NoMergeStats
    /\ mg_text = << >>
    /\ mg_entities = << >>
    /\ mg_merged = << >>
    /\ mg_steps = << >>
    /\ mg_parts = << >>
    /\ mg_calls = 0
    /\ mg_pc = "ready"
    /\ CoreIdle /\ RpIdle /\ VlIdle /\ AppIdle

\* What merge leaves behind when its loop gave out.
MergeReturns(entities, out) ==
    /\ mg_merged' = out.merged
    /\ mg_steps' = out.steps
    /\ mg_parts' = out.parts
    /\ merge_stats' = stats_after(merge_stats, entities, out.merged)

\* merge(entities, txt), from its call to its return.
Merge(entities, txt) ==
    /\ mg_pc = "ready"
    /\ mg_calls < MaxMergeCalls
    /\ mg_calls' = mg_calls + 1
    /\ mg_text' = txt
    /\ mg_entities' = entities
    /\ IF entities = << >>
       THEN /\ mg_merged' = << >>
            /\ mg_steps' = << >>
            /\ mg_parts' = << >>
            /\ merge_stats' = merge_stats
       ELSE MergeReturns(entities, merge(entities, txt, max_gap))
    /\ mg_pc' = "returned"
    /\ UNCHANGED <<max_gap, notMg>>

\* The caller has the result; the locals of the call are gone.
MergeExit ==
    /\ mg_pc = "returned"
    /\ mg_text' = << >>
    /\ mg_entities' = << >>
    /\ mg_merged' = << >>
    /\ mg_steps' = << >>
    /\ mg_parts' = << >>
    /\ mg_pc' = "ready"
    /\ UNCHANGED <<max_gap, merge_stats, mg_calls, notMg>>

\* reset_statistics()
ResetStatistics ==
    /\ mg_pc = "ready"
    /\ merge_stats # NoMergeStats
    /\ merge_stats' = NoMergeStats
    /\ UNCHANGED <<max_gap, mg_text, mg_entities, mg_merged, mg_steps, mg_parts,
                   mg_calls, mg_pc, notMg>>

\* Calls of merge on one Merger, each call after the first with a list one
\* span shorter, and reset_statistics between calls.
MgNext ==
    \/ (/\ mg_pc = "ready"
        /\ mg_calls < MaxMergeCalls
        /\ \E entities \in SeqsUpTo(MergeSpans, MaxMergeEntities - mg_calls) :
              Merge(entities, MergeText))
    \/ MergeExit
    \/ ResetStatistics

SpecMerge == MgInit /\ [][MgNext]_vars

\* ------------------------------------------------------- merger: properties
\* C18 as stated: in every turn of the loop the next span was merged into
\* the current candidate exactly when it had the same label and its start lay
\* in [current.end, current.end + max_gap].
MergeCondition ==
    mg_pc = "returned" =>
        \A k \in 1..Len(mg_steps) :
            mg_steps[k].merged <=>
                /\ mg_steps[k].next.label = mg_steps[k].current.label
                /\ mg_steps[k].next.start >= mg_steps[k].current.end
                /\ mg_steps[k].next.start <= mg_steps[k].current.end + max_gap

\* The lowest exponent among the floats of a sequence.
Lower(e, f) == IF e < f THEN e ELSE f
RECURSIVE MinExponent(_)
MinExponent(scores) ==
    IF Len(scores) = 1 THEN scores[1].e
    ELSE Lower(scores[1].e, MinExponent(Tail(scores)))

\* The exact sum of the floats of a sequence, in units of 2^e.
RECURSIVE SumScores(_, _)
SumScores(scores, e) ==
    IF scores = << >> THEN << >>
    ELSE AddNat(ShiftLeft(scores[1].m, scores[1].e - e),
                SumScores(Tail(scores), e), 0)

\* The exact n * score and the exact sum of the n scores, in units of 2^e.
ScoreTimesNIn(k, e) ==
    [product |-> ShiftLeft(MulSmall(mg_merged[k].score.m, Len(mg_parts[k]), 0),
                           mg_merged[k].score.e - e),
     sum |-> SumScores(mg_parts[k], e)]

ScoreTimesN(k) ==
    ScoreTimesNIn(k, MinExponent(Append(mg_parts[k], mg_merged[k].score)))

\* score * n is the sum.
IsTheSum(x) == x.product = x.sum

\* score * n differs from the sum by at most n * 2^-bits of the sum.
WithinRounding(x, n, bits) ==
    CmpNat(ShiftLeft(DiffNat(x.product, x.sum), bits), MulSmall(x.sum, n, 0)) <= 0

\* The returned spans account for every input span and none has the count
\* field.
RECURSIVE CountParts(_)
CountParts(parts) ==
    IF parts = << >> THEN 0 ELSE Len(parts[1]) + CountParts(Tail(parts))

MergedSpansComplete ==
    /\ Len(mg_parts) = Len(mg_merged)
    /\ CountParts(mg_parts) = Len(mg_entities)
    /\ \A k \in 1..Len(mg_merged) : "count" \notin DOMAIN mg_merged[k]

\* C19 as stated: every span merge returned has the score that is the
\* arithmetic mean of the scores of the n input spans merged into it, score
\* * n being exactly their sum, and none has the count field.
MergedScoreIsExactMean ==
    (mg_pc = "returned" /\ mg_entities # << >>) =>
        /\ MergedSpansComplete
        /\ \A k \in 1..Len(mg_merged) :
              IsTheSum(ScoreTimesN(k))

\* The bound on the rounding error of the running average is 2^-RoundingBits
\* for each of the n spans.
RoundingBits == MantissaBits - 2

\* C19, amended: every span merge returned has the score that is the
\* arithmetic mean of the scores of the n input spans merged into it up to
\* the rounding of the float operations (score * n differs from their sum by
\* at most n * 2^-51 of the sum, and not at all for n = 1), and none has the
\* count field.
MergedScoreIsMean ==
    (mg_pc = "returned" /\ mg_entities # << >>) =>
        /\ MergedSpansComplete
        /\ \A k \in 1..Len(mg_merged) :
              /\ WithinRounding(ScoreTimesN(k), Len(mg_parts[k]), RoundingBits)
              /\ Len(mg_parts[k]) = 1 =>
                    mg_merged[k].score = mg_parts[k][1]

\* Three spans with different scores merged into one returned span, whose
\* score times three is not exactly their sum.
MergedScoreIsMeanWitness ==
    /\ mg_pc = "returned"
    /\ Len(mg_entities) = 3
    /\ Len(mg_merged) = 1
    /\ Len(mg_parts[1]) = 3
    /\ mg_parts[1][1] # mg_parts[1][2]
    /\ mg_parts[1][2] = mg_parts[1][3]
    /\ mg_merged[1].start = 0
    /\ mg_merged[1].end = 10
    /\ ~IsTheSum(ScoreTimesN(1))

\* ----------------------------------------------------------------- validator
MaxValidateEntities == 2
MaxValidateCalls == 1
DefaultMinConfidence == 3
MaxEntityLength == 200

\* str.lower(): an upper-case letter becomes its lower-case letter, any other
\* character stays.
LowerOf ==
    [c \in {UpperCase[i] : i \in 1..Len(UpperCase)} |->
        LowerCase[CHOOSE i \in 1..Len(UpperCase) : UpperCase[i] = c]]

lower_char(c) == IF c \in DOMAIN LowerOf THEN LowerOf[c] ELSE c

lower(s) == [i \in 1..Len(s) |-> lower_char(s[i])]

\* re.sub(r'\s+', ' ', s): every run of whitespace becomes one blank.
\* Of every run the last whitespace character is kept, as a blank.
collapse_whitespace(s) ==
    LET kept == SelectSeq([i \in 1..Len(s) |-> i],
                          LAMBDA i : \/ ~IsSpace(s[i])
                                     \/ i = Len(s)
                                     \/ ~IsSpace(s[i + 1]))
    IN  [k \in 1..Len(kept) |->
            IF IsSpace(s[kept[k]]) THEN " " ELSE s[kept[k]]]

\* The text given to validate_entities.
ValidateText == <<"A", "b", " ", "c">>

\* The text fields of the entities: the text of a range, the same in another
\* case, a text that is nowhere in the range, and None.
ValidateTexts ==
    {[kind |-> "str", value |-> <<"A", "b">>],
     [kind |-> "str", value |-> <<"a", "b">>],
     [kind |-> "str", value |-> <<"z", "z">>],
     [kind |-> "none", value |-> << >>]}

\* The ranges of the entities: two in bounds, one empty, one beyond the end
\* of the text, one with a negative start.
ValidateRanges == {<<0, 2>>, <<3, 4>>, <<2, 2>>, <<3, 5>>, <<0 - 1, 2>>}

\* The scores of the entities, in tenths.
ValidateScores == {2, 5}

\* The entities given to validate_entities, with a score or without.
ValidateEntities ==
    {[label |-> <<"P", "e", "r", "s", "o", "n", " ">>, text |-> t,
      start |-> r[1], end |-> r[2], score |-> sc] :
     t \in ValidateTexts, r \in ValidateRanges, sc \in ValidateScores}
    \cup
    {[label |-> <<"P", "e", "r", "s", "o", "n", " ">>, text |-> t,
      start |-> r[1], end |-> r[2]] :
     t \in ValidateTexts, r \in {<<0, 2>>, <<3, 5>>}}

\* A text longer than the longest entity that _validate_position accepts.
LongText == [i \in 1..(MaxEntityLength + 2) |-> "x"]

\* The entities given to validate_entities with LongText: one of the longest
\* accepted length, one a character longer, one short at the end of the text.
LongEntities ==
    {[label |-> <<"P", "e", "r", "s", "o", "n", " ">>,
      text |-> [kind |-> "str", value |-> <<"x">>],
      start |-> r[1], end |-> r[2], score |-> sc] :
     r \in {<<0, MaxEntityLength>>, <<0, MaxEntityLength + 1>>,
            <<MaxEntityLength + 1, MaxEntityLength + 2>>},
     sc \in ValidateScores}

\* _validate_confidence: entity.get('score', 0.0) >= min_confidence
_validate_confidence(entity, threshold) ==
    LET score == IF "score" \in DOMAIN entity THEN entity.score ELSE 0
    IN  score >= threshold

\* _validate_position
_validate_position(entity, txt) ==
    LET start == entity.start
        end == entity.end
        text_length == Len(txt)
    IN  /\ ~(start < 0 \/ end < 0)
        /\ ~(start >= text_length \/ end > text_length)
        /\ ~(start >= end)
        /\ ~(end - start > MaxEntityLength)

\* _validate_text_consistency: "true", "false", or "raise" when the text of
\* the entity has no strip().
_validate_text_consistency(entity, txt) ==
    IF entity.text.kind # "str" THEN "raise"
    ELSE LET actual_text == PySlice(txt, entity.start, entity.end)
             normalized_entity == collapse_whitespace(strip(entity.text.value))
             normalized_actual == collapse_whitespace(strip(actual_text))
         IN  IF \/ normalized_entity = normalized_actual
                \/ lower(normalized_entity) = lower(normalized_actual)
                \/ Occurs(normalized_entity, normalized_actual)
                \/ Occurs(normalized_actual, normalized_entity)
             THEN "true" ELSE "false"

\* A cleaning that lower-cases and trims the label and leaves the text of the
\* entity as it was given.
_clean_entity_keeping_text(entity, txt, strict) ==
    [f \in DOMAIN entity \cup {"validated", "validator_version"} |->
        CASE f = "label" -> strip(lower(entity.label))
          [] f = "validated" -> TRUE
          [] f = "validator_version" -> "1.0.0"
          [] OTHER -> entity[f]]

\* _clean_entity
_clean_entity(entity, txt, strict) ==
    [f \in DOMAIN entity \cup {"validated", "validator_version"} |->
        CASE f = "text" ->
                 IF strict
                 THEN [kind |-> "str",
                       value |-> strip(PySlice(txt, entity.start, entity.end))]
                 ELSE entity.text
          [] f = "label" -> strip(lower(entity.label))
          [] f = "validated" -> TRUE
          [] f = "validator_version" -> "1.0.0"
          [] OTHER -> entity[f]]

\* A loop that checks the position before the confidence.
counted_in_position_first(entity, txt, threshold, strict) ==
    IF strict /\ ~_validate_position(entity, txt) THEN "position_invalid"
    ELSE IF ~_validate_confidence(entity, threshold) THEN "confidence_filtered"
    ELSE IF strict /\ _validate_text_consistency(entity, txt) = "false"
    THEN "text_mismatch"
    ELSE IF strict /\ _validate_text_consistency(entity, txt) = "raise"
    THEN "validation_errors"
    ELSE "valid_entities"

\* The counter the loop of validate_entities counts the entity in, or
\* "valid_entities" when it is appended to validated.
counted_in(entity, txt, threshold, strict) ==
    IF ~_validate_confidence(entity, threshold) THEN "confidence_filtered"
    ELSE IF strict /\ ~_validate_position(entity, txt) THEN "position_invalid"
    ELSE IF strict /\ _validate_text_consistency(entity, txt) = "false"
    THEN "text_mismatch"
    ELSE IF strict /\ _validate_text_consistency(entity, txt) = "raise"
    THEN "validation_errors"
    ELSE "valid_entities"

\* The loop of validate_entities over the rest of the list.
RECURSIVE ValidateLoop(_, _, _, _, _, _, _)
ValidateLoop(rest, txt, threshold, strict, stats, out, fate) ==
    IF rest = << >>
    THEN [stats |-> [stats EXCEPT !.valid_entities = Len(out)],
          validated |-> out, fate |-> fate]
    ELSE LET entity == Head(rest)
             counter == counted_in(entity, txt, threshold, strict)
         IN  IF counter = "valid_entities"
             THEN ValidateLoop(Tail(rest), txt, threshold, strict, stats,
                               Append(out, _clean_entity(entity, txt, strict)),
                               Append(fate, counter))
             ELSE ValidateLoop(Tail(rest), txt, threshold, strict,
                               [stats EXCEPT ![counter] = stats[counter] + 1],
                               out, Append(fate, counter))

\* self.validation_stats of __init__.
NoValidationStats ==
    [total_entities |-> 0, confidence_filtered |-> 0, position_invalid |-> 0,
     text_mismatch |-> 0, valid_entities |-> 0, validation_errors |-> 0]

\* EntityValidator(strict_validation=...) with the default min_confidence.
VlInit ==
    /\ min_confidence = DefaultMinConfidence
    /\ strict_validation \in BOOLEAN
    /\ validation_stats = NoValidationStats
    /\ vl_text = << >>
    /\ vl_entities = << >>
    /\ vl_threshold = 0
    /\ validated = << >>
    /\ vl_fate = << >>
    /\ vl_calls = 0
    /\ vl_pc = "ready"
    /\ CoreIdle /\ RpIdle /\ MgIdle /\ AppIdle

\* validate_entities(entities, txt, min_confidence=override), from its call
\* to its return; override is << >> for None.
ValidateEntitiesCall(entities, txt, override) ==
    /\ vl_pc = "ready"
    /\ vl_calls < MaxValidateCalls
    /\ vl_calls' = vl_calls + 1
    /\ vl_text' = txt
    /\ vl_entities' = entities
    /\ IF entities = << >>
       THEN /\ vl_threshold' = 0
            /\ validated' = << >>
            /\ vl_fate' = << >>
            /\ validation_stats' = validation_stats
       ELSE LET confidence_threshold ==
                    IF override # << >> THEN override[1] ELSE min_confidence
                reset == [validation_stats EXCEPT
                             !.total_entities = Len(entities),
                             !.confidence_filtered = 0,
                             !.position_invalid = 0,
                             !.text_mismatch = 0,
                             !.validation_errors = 0]
                out == ValidateLoop(entities, txt, confidence_threshold,
                                    strict_validation, reset, << >>, << >>)
            IN  /\ vl_threshold' = confidence_threshold
                /\ validated' = out.validated
                /\ vl_fate' = out.fate
                /\ validation_stats' = out.stats
    /\ vl_pc' = "returned"
    /\ UNCHANGED <<min_confidence, strict_validation, notVl>>

\* The caller has the result; the locals of the call are gone.
ValidateExit ==
    /\ vl_pc = "returned"
    /\ vl_text' = << >>
    /\ vl_entities' = << >>
    /\ vl_threshold' = 0
    /\ validated' = << >>
    /\ vl_fate' = << >>
    /\ vl_pc' = "ready"
    /\ UNCHANGED <<min_confidence, strict_validation, validation_stats,
                   vl_calls, notVl>>

\* Calls of validate_entities on one Validator, each call after the first
\* with a list one entity shorter, with the default threshold or 0.6, on the
\* short text or on the long one.
VlNext ==
    \/ (/\ vl_pc = "ready"
        /\ vl_calls < MaxValidateCalls
        /\ \E entities \in SeqsUpTo(ValidateEntities, MaxValidateEntities - vl_calls) :
              \E override \in {<< >>, <<6>>} :
                  ValidateEntitiesCall(entities, ValidateText, override))
    \/ (/\ vl_pc = "ready"
        /\ vl_calls < MaxValidateCalls
        /\ \E entities \in SeqsUpTo(LongEntities, MaxValidateEntities - vl_calls) :
              \E override \in {<< >>, <<6>>} :
                  ValidateEntitiesCall(entities, LongText, override))
    \/ ValidateExit

SpecValidate == VlInit /\ [][VlNext]_vars

\* ---------------------------------------------------- validator: properties
\* How many entries of seq are x.
CountOf(seq, x) == Cardinality({i \in 1..Len(seq) : seq[i] = x})

\* C20: after a call of validate_entities on a list that is not empty, every
\* entity was counted once, in the counter of the first of the checks
\* confidence, position, text consistency that it fails (position and text
\* are checked in strict mode only; a text check that raises counts as a
\* validation error), or it was returned; each counter holds the number of
\* entities counted in it; total_entities is the sum of the five counters and
\* valid_entities is the length of the returned list.
ValidationAccounting ==
    (vl_pc = "returned" /\ vl_entities # << >>) =>
        /\ Len(vl_fate) = Len(vl_entities)
        /\ \A i \in 1..Len(vl_entities) :
              LET e == vl_entities[i]
                  conf == _validate_confidence(e, vl_threshold)
                  pos == ~strict_validation \/ _validate_position(e, vl_text)
                  txt == IF strict_validation
                         THEN _validate_text_consistency(e, vl_text) ELSE "true"
              IN  /\ vl_fate[i] = "confidence_filtered" <=> ~conf
                  /\ vl_fate[i] = "position_invalid" <=> (conf /\ ~pos)
                  /\ vl_fate[i] = "text_mismatch" <=> (conf /\ pos /\ txt = "false")
                  /\ vl_fate[i] = "validation_errors" <=> (conf /\ pos /\ txt = "raise")
                  /\ vl_fate[i] = "valid_entities" <=> (conf /\ pos /\ txt = "true")
        /\ \A c \in {"confidence_filtered", "position_invalid", "text_mismatch",
                     "validation_errors", "valid_entities"} :
              validation_stats[c] = CountOf(vl_fate, c)
        /\ validation_stats.total_entities = Len(vl_entities)
        /\ validation_stats.total_entities
              = validation_stats.confidence_filtered
                   + validation_stats.position_invalid
                   + validation_stats.text_mismatch
                   + validation_stats.validation_errors
                   + validation_stats.valid_entities
        /\ validation_stats.valid_entities = Len(validated)

\* A strict call on two entities: the first fails the confidence check and
\* the position check and is counted as confidence_filtered only, the second
\* is returned.
ValidationAccountingWitness ==
    /\ vl_pc = "returned"
    /\ strict_validation
    /\ Len(vl_entities) = 2
    /\ ~_validate_confidence(vl_entities[1], vl_threshold)
    /\ ~_validate_position(vl_entities[1], vl_text)
    /\ validation_stats.confidence_filtered = 1
    /\ validation_stats.position_invalid = 0
    /\ validation_stats.valid_entities = 1
    /\ Len(validated) = 1

\* The positions in vl_entities of the entities that were returned, in order.
Survivors ==
    SelectSeq([i \in 1..Len(vl_fate) |-> i],
              LAMBDA i : vl_fate[i] = "valid_entities")

\* C21: with strict validation, every span returned by validate_entities has
\* a score of at least the threshold of the call, 0 <= start < end <= length
\* of the source text, end - start <= 200, as text the trimmed source
\* substring [start, end), and as label the lower-cased, trimmed label of the
\* entity it was made from, whose range and score it keeps.
ValidatedSpanInvariants ==
    (vl_pc = "returned" /\ strict_validation) =>
        /\ Len(validated) = Len(Survivors)
        /\ \A k \in 1..Len(validated) :
              LET span == validated[k]
                  given == vl_entities[Survivors[k]]
              IN  /\ "score" \in DOMAIN span
                  /\ span.score >= vl_threshold
                  /\ span.score = given.score
                  /\ 0 <= span.start
                  /\ span.start < span.end
                  /\ span.end <= Len(vl_text)
                  /\ span.end - span.start <= MaxEntityLength
                  /\ span.start = given.start /\ span.end = given.end
                  /\ span.text.kind = "str"
                  /\ span.text.value
                        = strip(PySlice(vl_text, span.start, span.end))
                  /\ span.label = strip(lower(given.label))
                  /\ span.label = lower(span.label)
                  /\ span.label = strip(span.label)

\* A strict call that returned a span whose given text differed from the
\* source substring and whose given label had capitals and a trailing blank.
ValidatedSpanInvariantsWitness ==
    /\ vl_pc = "returned"
    /\ strict_validation
    /\ Len(validated) = 1
    /\ Len(vl_entities) = 2
    /\ vl_entities[Survivors[1]].text.value
          # PySlice(vl_text, validated[1].start, validated[1].end)
    /\ vl_entities[Survivors[1]].label # validated[1].label
    /\ validated[1].label = <<"p", "e", "r", "s", "o", "n">>

\* ------------------------------------------ overlap resolution: which span goes
\* The turn of the loop of resolve_overlaps that is about to run acts on its
\* pair: neither span of the pair is marked for removal yet.
ActsOnPair ==
    /\ ov_pc = "resolve"
    /\ ov_next < Len(overlaps)
    /\ overlaps[ov_next + 1][1] \notin to_remove
    /\ overlaps[ov_next + 1][2] \notin to_remove

\* What the strategy compares: the score, or the length of the span.
Measure(e) == IF strategy = "highest_confidence" THEN e.score ELSE e.end - e.start

\* C29: with highest_confidence (longest), of each overlapping pair acted on
\* the span with the strictly lower score (the strictly shorter span) is
\* dropped, and with equal scores (lengths) the second span of the pair is
\* kept and the first is dropped.
PairwiseTieBreak ==
    [][(ActsOnPair /\ strategy \in {"highest_confidence", "longest"}) =>
          LET idx1 == overlaps[ov_next + 1][1]
              idx2 == overlaps[ov_next + 1][2]
              m1 == Measure(ov_entities[idx1 + 1])
              m2 == Measure(ov_entities[idx2 + 1])
          IN  to_remove' = to_remove \cup {IF m2 < m1 THEN idx2 ELSE idx1}]_vars

\* C30: with strategy first, of each overlapping pair acted on the span later
\* in the input list is dropped and the earlier one kept, wherever the two
\* spans start; the first span of the input list is never marked for removal
\* and is the first span of the result.
FirstKeepsEarlier ==
    /\ [][(ActsOnPair /\ strategy = "first") =>
            /\ overlaps[ov_next + 1][1] < overlaps[ov_next + 1][2]
            /\ to_remove' = to_remove \cup {overlaps[ov_next + 1][2]}]_vars
    /\ [](strategy = "first" =>
            /\ 0 \notin to_remove
            /\ (ov_pc = "returned" /\ ov_entities # << >>) =>
                   /\ resolved # << >>
                   /\ resolved[1] = ov_entities[1])

\* Strategy first on two overlapping spans of which the second of the list
\* starts before the first: the second was dropped.
FirstKeepsEarlierWitness ==
    /\ ov_pc = "returned"
    /\ strategy = "first"
    /\ Len(ov_entities) = 2
    /\ ov_entities[2].start < ov_entities[1].start
    /\ to_remove = {1}
    /\ resolved = <<ov_entities[1]>>

\* ------------------------------------- a redactor and a replacer, side by side
\* most spans in a list given to redact or replace here
MaxAnonEntities == 1

\* The text of test_redactor_empty_entities and test_replacer_empty_entities.
TestText ==
    <<"T", "h", "i", "s", " ", "i", "s", " ", "a", " ", "t", "e", "s", "t", ".">>

\* The texts given with an empty list of entities.
EmptyCallTexts == {<< >>, TestText}

\* The lists of up to n spans given to redact here: spans of label person,
\* in the order of the text.
AnRedactLists(n) ==
    {es \in RedactEntityLists :
        /\ Len(es) <= n
        /\ \A i \in 1..Len(es) :
              /\ es[i].label = <<"p", "e", "r", "s", "o", "n">>
              /\ es[i].start = 12 * (i - 1)}

\* The lists of up to n spans given to replace here: spans of label person
\* or misc.
AnReplaceLists(n) ==
    {es \in ReplaceEntityLists(Max({0, n})) :
        \A i \in 1..Len(es) : es[i].label \in {"person", "misc"}}

\* 'redaction_info' of the result of redact: entities_processed and
\* redactions_applied.
redaction_info ==
    [entities_processed |-> Len(rd_entities),
     redactions_applied |-> Len(redaction_details)]

\* 'replacement_info' of the result of replace: entities_processed and
\* replacements_applied.
replacement_info ==
    [entities_processed |-> Len(rp_entities),
     replacements_applied |-> Len(replacement_details)]

\* EntityRedactor() and EntityReplacer(), both just constructed.
AnonymizersReady ==
    /\ used_ids_per_label = << >>
    /\ rd_text = << >>
    /\ rd_entities = << >>
    /\ numbered = FALSE
    /\ consistent_ids = FALSE
    /\ entity_to_id = << >>
    /\ redaction_details = << >>
    /\ re_identification_map = << >>
    /\ anonymized_text = << >>
    /\ used_at_call = << >>
    /\ rd_calls = 0
    /\ rd_pc = "ready"
    /\ entity_id_map = << >>
    /\ bt_texts = << >>
    /\ bt_entities = << >>
    /\ global_entity_map = << >>
    /\ old_map = << >>
    /\ bt_results = << >>
    /\ bt_pc = "idle"
    /\ issued = << >>
    /\ faker_available \in BOOLEAN
    /\ replacement_cache = << >>
    /\ rp_text = << >>
    /\ rp_entities = << >>
    /\ rp_consistency = FALSE
    /\ rp_custom = << >>
    /\ rp_todo = << >>
    /\ replaced_text = << >>
    /\ replacement_details = << >>
    /\ rp_last = << >>
    /\ rp_results = << >>
    /\ rp_calls = 0
    /\ rp_pc = "ready"

AnInit ==
    /\ AnonymizersReady
    /\ text = << >>
    /\ ChunkIdle /\ ExIdle /\ ParIdle /\ OvIdle /\ MgIdle /\ VlIdle /\ AppIdle

\* Calls of redact on the redactor and of replace on the replacer, with a
\* list of spans and its text, or with no spans and any of EmptyCallTexts;
\* each call after the first with a list one span shorter.
AnNext ==
    \/ (/\ rd_pc = "ready"
        /\ rd_calls < MaxRedactCalls
        /\ \E entities \in AnRedactLists(MaxAnonEntities - rd_calls) :
           \E txt \in IF entities = << >> THEN EmptyCallTexts
                       ELSE {SourceText(entities)} :
           \E num, cons \in BOOLEAN :
              /\ Redact(txt, entities, num, cons)
              /\ UNCHANGED issued)
    \/ RedactExit
    \/ (/\ rp_pc = "ready"
        /\ rp_calls < MaxReplaceCalls
        /\ \E entities \in AnReplaceLists(MaxAnonEntities - rp_calls) :
           \E txt \in IF entities = << >> THEN EmptyCallTexts
                       ELSE {ReplaceText(entities)} :
           \E consistency \in BOOLEAN :
              ReplaceStart(txt, entities, consistency, << >>))
    \/ ReplaceEntity
    \/ ReplaceReturn
    \/ ReplaceExit

SpecAnonymize == AnInit /\ [][AnNext]_vars

\* C23: redact(text, []) and replace(text, []) return the text unchanged
\* with an empty replacements list (and an empty re-identification map),
\* entities_processed = 0 and redactions_applied = replacements_applied = 0,
\* and leave the ids in use, the id map of the redactor and the consistency
\* cache of the replacer as they were.
EmptyEntitiesFrame ==
    /\ [][(rd_pc = "ready" /\ rd_pc' = "returned" /\ rd_entities' = << >>) =>
            /\ anonymized_text' = rd_text'
            /\ redaction_details' = << >>
            /\ re_identification_map' = << >>
            /\ redaction_info'.entities_processed = 0
            /\ redaction_info'.redactions_applied = 0
            /\ used_ids_per_label' = used_ids_per_label
            /\ entity_id_map' = entity_id_map]_vars
    /\ [][(rp_pc = "ready" /\ rp_pc' # "ready" /\ rp_entities' = << >>) =>
            /\ rp_pc' = "returned"
            /\ replaced_text' = rp_text'
            /\ replacement_details' = << >>
            /\ replacement_info'.entities_processed = 0
            /\ replacement_info'.replacements_applied = 0
            /\ replacement_cache' = replacement_cache]_vars

\* redact(TestText, []) has returned on a redactor with ids in use, and
\* replace(TestText, []) on a replacer with a cached replacement.
EmptyEntitiesFrameWitness ==
    /\ rd_pc = "returned"
    /\ rd_entities = << >>
    /\ rd_text = TestText
    /\ anonymized_text = TestText
    /\ used_ids_per_label # << >>
    /\ rp_pc = "returned"
    /\ rp_entities = << >>
    /\ rp_text = TestText
    /\ replaced_text = TestText
    /\ replacement_cache # << >>

\* ------------------------------------------------- cloak.redact, call after call
\* The anonymized_text of the first numbered redact call on the global
\* redactor of cloak.py, which _get_global_redactor_instance has just made:
\* no id is in use.
first_call_text(txt, entities) ==
    IF entities = << >> THEN txt
    ELSE LET built == _build_entity_id_map(entities, << >>)
         IN  RedactLoop(sorted_entities(entities), built.map, built.used,
                        << >>, << >>, txt, TRUE, TRUE).redacted_text

\* C26: every numbered call of redact on the one redactor of the process
\* returns, for the same text and the same spans, the anonymized_text of the
\* first such call, its placeholders numbered from 1 for every label.
RepeatedRedactionReproducible ==
    (rd_pc = "returned" /\ numbered /\ consistent_ids) =>
        anonymized_text = first_call_text(rd_text, rd_entities)

\* ------------------------------------------------------------------- cache
\* most threads that call predict on one CachedEntityExtractor
MaxThreads == 2
\* most calls (predict, clear_cache, clear_stats) on one CachedEntityExtractor
MaxCacheCalls == 3
\* cache_manager.py line 25: the default of maxsize
DefaultCacheSize == 128

Threads == 1..MaxThreads

\* The texts and the label lists given to predict.
CacheTexts == {<<"a">>, <<"b">>}
CacheLabelLists == {<<"date", "person">>, <<"person", "date">>}

\* The labels of CacheLabelLists in the order of sorted().
LabelOrder == <<"date", "person">>

RECURSIVE SortLabelsFrom(_, _)
SortLabelsFrom(labels, i) ==
    IF i > Len(LabelOrder) THEN << >>
    ELSE SelectSeq(labels, LAMBDA l : l = LabelOrder[i])
            \o SortLabelsFrom(labels, i + 1)

\* sorted(labels)
sorted_labels(labels) == SortLabelsFrom(labels, 1)

\* A key with the labels in the order they were given.
create_cache_key_unsorted(txt, labels) == <<txt, labels>>

\* (text, tuple(sorted(labels)) if labels else tuple())
create_cache_key(txt, labels) ==
    <<txt, IF labels # << >> THEN sorted_labels(labels) ELSE << >>>>

\* What self.extractor.predict(text, labels) does when _uncached_predict
\* calls it: it raises, or it returns a list of entities.
PredictOutcomes ==
    {[raised |-> TRUE, entities |-> << >>],
     [raised |-> FALSE, entities |-> <<[start |-> 0, end |-> 1]>>],
     [raised |-> FALSE, entities |-> << >>]}

\* _uncached_predict: the list, or [] when the extractor raised.
_uncached_predict(outcome) ==
    IF outcome.raised THEN << >> ELSE outcome.entities

\* The position of key among the entries of the lru_cache, 0 when absent.
lru_index(entries, key) ==
    IF \E i \in 1..Len(entries) : entries[i].key = key
    THEN CHOOSE i \in 1..Len(entries) : entries[i].key = key
    ELSE 0

\* A hit makes the entry the most recently used one.
lru_touch(entries, key) ==
    SelectSeq(entries, LAMBDA e : e.key # key)
       \o <<entries[lru_index(entries, key)]>>

\* The lru_cache after the call of the wrapped function returned result: an
\* entry another call stored in the meantime stays, a full cache loses its
\* oldest entry.
lru_store(entries, key, result, maxsize) ==
    IF lru_index(entries, key) # 0 THEN entries
    ELSE IF Len(entries) >= maxsize
    THEN Append(Tail(entries), [key |-> key, result |-> result])
    ELSE Append(entries, [key |-> key, result |-> result])

IdleThread ==
    [pc |-> "idle", op |-> "predict", text |-> << >>, labels |-> << >>,
     key |-> << >>,
     use_cache |-> FALSE, tmp |-> 0, before |-> 0, result |-> << >>,
     invoked |-> 0, tally |-> "none"]

\* CachedEntityExtractor(extractor, maxsize), no call made yet.
ChInit ==
    /\ ch_maxsize \in {1, DefaultCacheSize}
    /\ lru = << >>
    /\ lru_hits = 0
    /\ lru_misses = 0
    /\ cache_hits = 0
    /\ cache_misses = 0
    /\ total_requests = 0
    /\ th = [t \in Threads |-> IdleThread]
    /\ ch_log = << >>
    /\ ch_calls = 0
    /\ CoreIdle /\ RpIdle /\ MgIdle /\ VlIdle /\ PlIdle /\ MoreIdle

\* No call (predict, clear_cache, clear_stats) is under way.
NoCallUnderWay == \A t \in Threads : th[t].pc = "idle"

\* Thread t calls predict(txt, labels, use_cache): without the cache it goes
\* on to _uncached_predict, with it to _cached_predict with labels_tuple.
CallPredict(t, txt, labels, use_cache) ==
    /\ th[t].pc = "idle"
    /\ ch_calls < MaxCacheCalls
    /\ ch_calls' = ch_calls + 1
    /\ th' = [th EXCEPT ![t] =
                [IdleThread EXCEPT
                    !.pc = IF use_cache THEN "count" ELSE "invoke",
                    !.text = txt,
                    !.labels = labels,
                    !.key = create_cache_key(txt, labels),
                    !.use_cache = use_cache]]
    /\ UNCHANGED <<ch_maxsize, lru, lru_hits, lru_misses, cache_hits,
                   cache_misses, total_requests, ch_log, notCh>>

\* self.total_requests += 1, the read of the attribute.
CountRead(t) ==
    /\ th[t].pc = "count"
    /\ th' = [th EXCEPT ![t].tmp = total_requests, ![t].pc = "count_write"]
    /\ UNCHANGED <<ch_maxsize, lru, lru_hits, lru_misses, cache_hits,
                   cache_misses, total_requests, ch_log, ch_calls, notCh>>

\* self.total_requests += 1, the write of the attribute.
CountWrite(t) ==
    /\ th[t].pc = "count_write"
    /\ total_requests' = th[t].tmp + 1
    /\ th' = [th EXCEPT ![t].pc = "info_before"]
    /\ UNCHANGED <<ch_maxsize, lru, lru_hits, lru_misses, cache_hits,
                   cache_misses, ch_log, ch_calls, notCh>>

\* cache_info_before = original_cached.cache_info()
InfoBefore(t) ==
    /\ th[t].pc = "info_before"
    /\ th' = [th EXCEPT ![t].before = lru_hits, ![t].pc = "lookup"]
    /\ UNCHANGED <<ch_maxsize, lru, lru_hits, lru_misses, cache_hits,
                   cache_misses, total_requests, ch_log, ch_calls, notCh>>

\* original_cached(text, labels_tuple), the lookup of the lru_cache: a hit
\* returns the entry, a miss goes on to call the wrapped function.
Lookup(t) ==
    /\ th[t].pc = "lookup"
    /\ IF lru_index(lru, th[t].key) # 0
       THEN /\ lru_hits' = lru_hits + 1
            /\ lru_misses' = lru_misses
            /\ lru' = lru_touch(lru, th[t].key)
            /\ th' = [th EXCEPT
                         ![t].result = lru[lru_index(lru, th[t].key)].result,
                         ![t].pc = "info_after"]
       ELSE /\ lru_hits' = lru_hits
            /\ lru_misses' = lru_misses + 1
            /\ lru' = lru
            /\ th' = [th EXCEPT ![t].pc = "invoke"]
    /\ UNCHANGED <<ch_maxsize, cache_hits, cache_misses, total_requests,
                   ch_log, ch_calls, notCh>>

\* _uncached_predict(text, labels): the extractor is invoked and does outcome.
\* A call without the cache has its result and goes on to return.
Invoke(t, outcome) ==
    /\ th[t].pc = "invoke"
    /\ th' = [th EXCEPT ![t].result = _uncached_predict(outcome),
                        ![t].invoked = 1,
                        ![t].pc = IF th[t].use_cache THEN "store" ELSE "return"]
    /\ UNCHANGED <<ch_maxsize, lru, lru_hits, lru_misses, cache_hits,
                   cache_misses, total_requests, ch_log, ch_calls, notCh>>

\* The lru_cache stores the result of the wrapped function.
Store(t) ==
    /\ th[t].pc = "store"
    /\ lru' = lru_store(lru, th[t].key, th[t].result, ch_maxsize)
    /\ th' = [th EXCEPT ![t].pc = "info_after"]
    /\ UNCHANGED <<ch_maxsize, lru_hits, lru_misses, cache_hits, cache_misses,
                   total_requests, ch_log, ch_calls, notCh>>

\* cache_info_after = original_cached.cache_info() and the comparison of the
\* hits with those before the call.
InfoAfter(t) ==
    /\ th[t].pc = "info_after"
    /\ th' = [th EXCEPT ![t].tally = IF lru_hits > th[t].before
                                     THEN "hit" ELSE "miss",
                        ![t].pc = "tally"]
    /\ UNCHANGED <<ch_maxsize, lru, lru_hits, lru_misses, cache_hits,
                   cache_misses, total_requests, ch_log, ch_calls, notCh>>

\* self.cache_hits += 1 or self.cache_misses += 1, the read.
TallyRead(t) ==
    /\ th[t].pc = "tally"
    /\ th' = [th EXCEPT ![t].tmp = IF th[t].tally = "hit" THEN cache_hits
                                   ELSE cache_misses,
                        ![t].pc = "tally_write"]
    /\ UNCHANGED <<ch_maxsize, lru, lru_hits, lru_misses, cache_hits,
                   cache_misses, total_requests, ch_log, ch_calls, notCh>>

\* self.cache_hits += 1 or self.cache_misses += 1, the write; the wrapper
\* goes on to return result.
TallyWrite(t) ==
    /\ th[t].pc = "tally_write"
    /\ IF th[t].tally = "hit"
       THEN cache_hits' = th[t].tmp + 1 /\ cache_misses' = cache_misses
       ELSE cache_misses' = th[t].tmp + 1 /\ cache_hits' = cache_hits
    /\ th' = [th EXCEPT ![t].pc = "return"]
    /\ UNCHANGED <<ch_maxsize, lru, lru_hits, lru_misses, total_requests,
                   ch_log, ch_calls, notCh>>

\* The call of thread t returns to its caller: predict with its result,
\* clear_stats and clear_cache after their logger.info, during which other
\* threads run.  ch_log has the calls in the order they returned.
CallReturns(t) ==
    /\ th[t].pc = "return"
    /\ ch_log' = Append(ch_log, [op |-> th[t].op, text |-> th[t].text,
                                 labels |-> th[t].labels,
                                 use_cache |-> th[t].use_cache,
                                 result |-> th[t].result,
                                 invoked |-> th[t].invoked,
                                 tally |-> th[t].tally])
    /\ th' = [th EXCEPT ![t] = IdleThread]
    /\ UNCHANGED <<ch_maxsize, lru, lru_hits, lru_misses, cache_hits,
                   cache_misses, total_requests, ch_calls, notCh>>

\* Thread t calls clear_cache(): it goes on to self._cached_predict.cache_clear().
\* Nothing keeps the call from starting while predict calls are under way.
ClearCacheCall(t) ==
    /\ th[t].pc = "idle"
    /\ ch_calls < MaxCacheCalls
    /\ ch_calls' = ch_calls + 1
    /\ th' = [th EXCEPT ![t] = [IdleThread EXCEPT !.pc = "cache_clear",
                                                  !.op = "clear"]]
    /\ UNCHANGED <<ch_maxsize, lru, lru_hits, lru_misses, cache_hits,
                   cache_misses, total_requests, ch_log, notCh>>

\* self._cached_predict.cache_clear(): the lru_cache drops its entries and
\* resets its own hits and misses; clear_cache goes on to clear_stats().
CacheClear(t) ==
    /\ th[t].pc = "cache_clear"
    /\ lru' = << >>
    /\ lru_hits' = 0
    /\ lru_misses' = 0
    /\ th' = [th EXCEPT ![t].pc = "reset_hits"]
    /\ UNCHANGED <<ch_maxsize, cache_hits, cache_misses, total_requests,
                   ch_log, ch_calls, notCh>>

\* Thread t calls cache_manager.clear_stats() itself: the lru_cache and its
\* own hits and misses are left as they are.
ClearStatsCall(t) ==
    /\ th[t].pc = "idle"
    /\ ch_calls < MaxCacheCalls
    /\ ch_calls' = ch_calls + 1
    /\ th' = [th EXCEPT ![t] = [IdleThread EXCEPT !.pc = "reset_hits",
                                                  !.op = "clear_stats"]]
    /\ UNCHANGED <<ch_maxsize, lru, lru_hits, lru_misses, cache_hits,
                   cache_misses, total_requests, ch_log, notCh>>

\* clear_stats: self.cache_hits = 0
ResetHits(t) ==
    /\ th[t].pc = "reset_hits"
    /\ cache_hits' = 0
    /\ th' = [th EXCEPT ![t].pc = "reset_misses"]
    /\ UNCHANGED <<ch_maxsize, lru, lru_hits, lru_misses, cache_misses,
                   total_requests, ch_log, ch_calls, notCh>>

\* clear_stats: self.cache_misses = 0
ResetMisses(t) ==
    /\ th[t].pc = "reset_misses"
    /\ cache_misses' = 0
    /\ th' = [th EXCEPT ![t].pc = "reset_total"]
    /\ UNCHANGED <<ch_maxsize, lru, lru_hits, lru_misses, cache_hits,
                   total_requests, ch_log, ch_calls, notCh>>

\* clear_stats: self.total_requests = 0; the logger.info of clear_stats, and
\* that of a clear_cache that called it, come before the return.
ResetTotal(t) ==
    /\ th[t].pc = "reset_total"
    /\ total_requests' = 0
    /\ th' = [th EXCEPT ![t].pc = "return"]
    /\ UNCHANGED <<ch_maxsize, lru, lru_hits, lru_misses, cache_hits,
                   cache_misses, ch_log, ch_calls, notCh>>

\* The steps of a clear_cache or clear_stats call under way in thread t.
ClearStep(t) ==
    \/ CacheClear(t)
    \/ ResetHits(t)
    \/ ResetMisses(t)
    \/ ResetTotal(t)

\* The steps of a predict call under way in thread t.
PredictStep(t) ==
    \/ CountRead(t)
    \/ CountWrite(t)
    \/ InfoBefore(t)
    \/ Lookup(t)
    \/ (/\ th[t].pc = "invoke"
        /\ \E outcome \in PredictOutcomes : Invoke(t, outcome))
    \/ Store(t)
    \/ InfoAfter(t)
    \/ TallyRead(t)
    \/ TallyWrite(t)

\* Threads that call predict, clear_cache and clear_stats whenever they are
\* free, whatever the other threads are doing.
ChNext ==
    \/ \E t \in Threads :
          /\ th[t].pc = "idle"
          /\ ch_calls < MaxCacheCalls
          /\ \E txt \in CacheTexts : \E labels \in CacheLabelLists :
             \E use_cache \in BOOLEAN :
                CallPredict(t, txt, labels, use_cache)
    \/ \E t \in Threads : PredictStep(t)
    \/ \E t \in Threads : ClearCacheCall(t)
    \/ \E t \in Threads : ClearStatsCall(t)
    \/ \E t \in Threads : ClearStep(t)
    \/ \E t \in Threads : CallReturns(t)

SpecCache == ChInit /\ [][ChNext]_vars

\* One caller: a call starts when the one before it has returned.
ChNextSequential ==
    \/ (/\ NoCallUnderWay
        /\ ch_calls < MaxCacheCalls
        /\ \E txt \in CacheTexts : \E labels \in CacheLabelLists :
           \E use_cache \in BOOLEAN :
              CallPredict(1, txt, labels, use_cache))
    \/ PredictStep(1)
    \/ (NoCallUnderWay /\ ClearCacheCall(1))
    \/ (NoCallUnderWay /\ ClearStatsCall(1))
    \/ ClearStep(1)
    \/ CallReturns(1)

SpecCacheSequential == ChInit /\ [][ChNextSequential]_vars

\* ------------------------------------------------------- cache: properties
\* The positions in ch_log of the predict calls that went through the cache.
CachedCalls ==
    {i \in 1..Len(ch_log) : ch_log[i].op = "predict" /\ ch_log[i].use_cache}

LogKey(i) == <<ch_log[i].text, sorted_labels(ch_log[i].labels)>>

\* The entry call i left in the cache is still there when call j comes:
\* no clear_cache between them, and fewer than maxsize other keys.
StillCached(i, j) ==
    /\ \A k \in (i + 1)..(j - 1) : ch_log[k].op # "clear"
    /\ Cardinality({LogKey(k) : k \in {c \in CachedCalls : i < c /\ c < j}}
                      \ {LogKey(i)}) < ch_maxsize

\* C27: when threads call predict at the same time, once all calls have
\* returned the extractor was invoked at most once for each key (no
\* clear_cache or clear_stats, and room for every key), total_requests is
\* the number of calls through the cache, and cache_hits + cache_misses =
\* total_requests.
CacheUnderConcurrency ==
    (NoCallUnderWay /\ \A i \in 1..Len(ch_log) : ch_log[i].op = "predict") =>
        /\ Cardinality({LogKey(i) : i \in CachedCalls}) <= ch_maxsize =>
              \A i, j \in CachedCalls :
                 (i # j /\ LogKey(i) = LogKey(j)) =>
                    ~(ch_log[i].invoked = 1 /\ ch_log[j].invoked = 1)
        /\ total_requests = Cardinality(CachedCalls)
        /\ cache_hits + cache_misses = total_requests

\* Call j is the first through the cache for its key since the cache was
\* built or last cleared.
FirstForKey(j) ==
    \A i \in CachedCalls :
       (i < j /\ LogKey(i) = LogKey(j)) =>
           \E k \in (i + 1)..(j - 1) : ch_log[k].op = "clear"

\* C28: in a sequence of predict, clear_cache and clear_stats calls by one
\* caller, a call through the cache with the text and the labels (in any
\* order) of an earlier one whose entry was not evicted or cleared returns
\* the result of the earlier call without invoking the extractor and is
\* counted as a hit; the first call for a key since the cache was built or
\* cleared invokes the extractor and is counted as a miss, and a call invokes
\* the extractor exactly when it is counted as a miss, so the two calls
\* together invoke it once; and between calls total_requests = cache_hits +
\* cache_misses.
CacheKeying ==
    /\ NoCallUnderWay => total_requests = cache_hits + cache_misses
    /\ \A j \in CachedCalls :
          /\ ch_log[j].invoked = IF ch_log[j].tally = "miss" THEN 1 ELSE 0
          /\ ch_log[j].tally \in {"hit", "miss"}
          /\ FirstForKey(j) => ch_log[j].tally = "miss"
    /\ \A i, j \in CachedCalls :
          (/\ i < j
           /\ ch_log[i].text = ch_log[j].text
           /\ sorted_labels(ch_log[i].labels) = sorted_labels(ch_log[j].labels)
           /\ StillCached(i, j)) =>
               /\ ch_log[j].result = ch_log[i].result
               /\ ch_log[j].invoked = 0
               /\ ch_log[j].tally = "hit"

\* Two calls with one text and the labels in different orders: the first
\* invoked the extractor and got a span, the second was a hit with that span.
CacheKeyingWitness ==
    /\ NoCallUnderWay
    /\ Len(ch_log) = 2
    /\ ch_log[1].use_cache /\ ch_log[2].use_cache
    /\ ch_log[1].text = ch_log[2].text
    /\ ch_log[1].labels # ch_log[2].labels
    /\ ch_log[1].invoked = 1
    /\ ch_log[1].result # << >>
    /\ ch_log[2].tally = "hit"
    /\ ch_log[2].result = ch_log[1].result
    /\ total_requests = 2 /\ cache_hits = 1 /\ cache_misses = 1

\* --------------------------------------------------- extraction pipeline
\* most extract_entities calls on one CloakExtraction
MaxPipelineCalls == 2

\* The texts given to extract_entities: the empty one, a blank one, and two
\* short enough for the single-pass path.
PipelineTexts == {<< >>, <<" ">>, <<"a">>, <<"a", "a">>}

\* The labels given to extract_entities.
PipelineLabels == <<"person", "date">>

\* The model_path argument: None, a directory that is not there, one that is.
ModelPaths == {"none", "missing", "exists"}

\* The max_passes argument: below, at and above the default of predict.
PassCaps == {1, DefaultMaxPasses, DefaultMaxPasses + 1}

\* The arguments of extract_entities; use_parallel, min_confidence and the
\* sizes are left at their defaults.  A pipeline that has its components
\* ignores model_path, so it is called without one.  Calls after the first
\* are made with the one-letter text and keep max_passes and the stage
\* switches at their defaults.
PipelineArgs ==
    {a \in [text : PipelineTexts, max_passes : PassCaps,
            merge_entities : BOOLEAN, use_cache : BOOLEAN,
            enable_validation : BOOLEAN, resolve_overlaps : BOOLEAN,
            model_path : ModelPaths] :
        /\ base_extractor # "None" => a.model_path = "none"
        /\ pl_calls > 0 =>
              /\ a.text = <<"a">>
              /\ a.max_passes = DefaultMaxPasses
              /\ a.merge_entities /\ a.enable_validation /\ a.resolve_overlaps}

\* The scores the labeler gives, in tenths.
PipelineScores == {5, 9}

\* The entities of predict with the fields the labeler gave them: the label,
\* the text at the span and a score.
labelled(spans, txt, scores) ==
    [i \in 1..Len(spans) |->
        [label |-> <<"p", "e", "r", "s", "o", "n">>,
         text |-> [kind |-> "str",
                   value |-> PySlice(txt, spans[i].start, spans[i].end)],
         start |-> spans[i].start, end |-> spans[i].end,
         score |-> scores[i]]]

\* The loop of resolve_overlaps over the pairs from the k-th on.
RECURSIVE MarkFrom(_, _, _, _, _)
MarkFrom(entities, pairs, k, removed, strat) ==
    IF k > Len(pairs) THEN removed
    ELSE LET idx1 == pairs[k][1]
             idx2 == pairs[k][2]
         IN  MarkFrom(entities, pairs, k + 1,
                      IF idx1 \in removed \/ idx2 \in removed THEN removed
                      ELSE removed \cup {removed_index(entities, idx1, idx2, strat)},
                      strat)

\* A resolution that compares each span with the next one of the list only.
resolve_overlaps_of_neighbours(entities, strat) ==
    IF entities = << >> THEN << >>
    ELSE IF detect_adjacent_only(entities) = << >> THEN entities
    ELSE not_removed(entities,
                     MarkFrom(entities, detect_adjacent_only(entities), 1, {}, strat))

\* resolve_overlaps(entities, strategy), from its call to its return.
resolve_overlaps(entities, strat) ==
    IF entities = << >> THEN << >>
    ELSE IF _detect_overlaps(entities) = << >> THEN entities
    ELSE not_removed(entities,
                     MarkFrom(entities, _detect_overlaps(entities), 1, {}, strat))

\* The entity as the merger reads it: the score as a float, the text as a
\* plain string.
as_merged_input(entities) ==
    [i \in 1..Len(entities) |->
        [entities[i] EXCEPT !.score = float_of_tenths(entities[i].score),
                            !.text = entities[i].text.value]]

\* _empty_result()
_empty_result ==
    [kind |-> "result", entities |-> << >>,
     processing_info |->
        [method_used |-> "none", passes_completed |-> 0, entities_found |-> 0,
         validation_applied |-> FALSE, overlap_resolution_applied |-> FALSE,
         error |-> "Empty or invalid input text"]]

\* CloakExtraction(model_path=..., use_caching=..., strict_validation=...,
\* overlap_strategy=...): with a model_path the components are there, without
\* one they are made by the first call that brings a model_path.  The
\* strict_validation of the pipeline is the one its validator is made with.
PlInit ==
    /\ base_extractor \in {"None", "EntityExtractor"}
    /\ use_caching \in BOOLEAN
    /\ overlap_strategy \in Strategies
    /\ pl_args = << >>
    /\ pl_entities = << >>
    /\ pl_stages = << >>
    /\ pl_passes = 0
    /\ pl_result = << >>
    /\ pl_calls = 0
    /\ pl_pc = "ready"
    /\ min_confidence = IF base_extractor # "None" THEN DefaultMinConfidence ELSE 0
    /\ strict_validation \in BOOLEAN
    /\ validation_stats = IF base_extractor # "None" THEN NoValidationStats ELSE << >>
    /\ max_gap = IF base_extractor # "None" THEN DefaultMaxGap ELSE 0
    /\ merge_stats = IF base_extractor # "None" THEN NoMergeStats ELSE << >>
    /\ ch_maxsize = IF base_extractor # "None" /\ use_caching
                    THEN DefaultCacheSize ELSE 0
    /\ vl_text = << >> /\ vl_entities = << >> /\ vl_threshold = 0
    /\ validated = << >> /\ vl_fate = << >> /\ vl_calls = 0 /\ vl_pc = "idle"
    /\ mg_text = << >> /\ mg_entities = << >> /\ mg_merged = << >>
    /\ mg_steps = << >> /\ mg_parts = << >> /\ mg_calls = 0 /\ mg_pc = "idle"
    /\ lru = << >> /\ lru_hits = 0 /\ lru_misses = 0
    /\ cache_hits = 0 /\ cache_misses = 0 /\ total_requests = 0
    /\ th = << >> /\ ch_log = << >> /\ ch_calls = 0
    /\ CoreIdle /\ RpIdle /\ MoreIdle

IsBlank(txt) == txt = << >> \/ strip(txt) = << >>

\* The call of extract_entities with the arguments a begins.
CallBegins(a) ==
    /\ pl_pc = "ready"
    /\ pl_calls < MaxPipelineCalls
    /\ pl_calls' = pl_calls + 1
    /\ pl_args' = a

\* _ensure_initialized goes through: the components are there, or the call
\* brought a model_path that exists and _initialize_components makes them.
EnsureInitialized(a) ==
    /\ base_extractor # "None" \/ a.model_path = "exists"
    /\ base_extractor' = "EntityExtractor"
    /\ IF base_extractor # "None"
       THEN UNCHANGED <<min_confidence, strict_validation, max_gap, ch_maxsize>>
       ELSE /\ min_confidence' = DefaultMinConfidence
            /\ strict_validation' = strict_validation
            /\ max_gap' = DefaultMaxGap
            /\ ch_maxsize' = IF use_caching THEN DefaultCacheSize ELSE 0

\* The statistics of a validator and a merger that were just made.
fresh_validation_stats ==
    IF base_extractor # "None" THEN validation_stats ELSE NoValidationStats

fresh_merge_stats ==
    IF base_extractor # "None" THEN merge_stats ELSE NoMergeStats

\* Line 169 and lines 122-131: no components and no model_path that exists;
\* _ensure_initialized raises, whatever the text is.
EnsureInitializedRaises(a) ==
    /\ CallBegins(a)
    /\ base_extractor = "None"
    /\ a.model_path # "exists"
    /\ pl_result' = [kind |-> "raise",
                     exception |-> IF a.model_path = "none" THEN "ValueError"
                                   ELSE "FileNotFoundError"]
    /\ pl_pc' = "raised"
    /\ UNCHANGED <<base_extractor, use_caching, overlap_strategy, pl_entities,
                   pl_stages, pl_passes, text, exVars, min_confidence,
                   strict_validation, validation_stats, max_gap, merge_stats,
                   ch_maxsize, lru, lru_hits, lru_misses, cache_hits,
                   cache_misses, total_requests, notPl>>

\* Lines 172-173: an empty or blank text returns the empty result.
ExtractBlank(a) ==
    /\ CallBegins(a)
    /\ EnsureInitialized(a)
    /\ IsBlank(a.text)
    /\ validation_stats' = fresh_validation_stats
    /\ merge_stats' = fresh_merge_stats
    /\ pl_result' = _empty_result
    /\ pl_pc' = "returned"
    /\ UNCHANGED <<use_caching, overlap_strategy, pl_entities, pl_stages,
                   pl_passes, text, exVars, lru, lru_hits, lru_misses,
                   cache_hits, cache_misses, total_requests, notPl>>

\* Lines 207-211 without caching: self.extractor is the EntityExtractor, whose
\* predict has no use_cache parameter; the TypeError is logged and raised
\* again by lines 270-272.
ExtractWithoutCaching(a) ==
    /\ CallBegins(a)
    /\ EnsureInitialized(a)
    /\ ~IsBlank(a.text)
    /\ ~use_caching
    /\ validation_stats' = fresh_validation_stats
    /\ merge_stats' = fresh_merge_stats
    /\ pl_result' = [kind |-> "raise", exception |-> "TypeError"]
    /\ pl_pc' = "raised"
    /\ UNCHANGED <<use_caching, overlap_strategy, pl_entities, pl_stages,
                   pl_passes, text, exVars, lru, lru_hits, lru_misses,
                   cache_hits, cache_misses, total_requests, notPl>>

\* Lines 207-211 with caching, the key of the call being in the lru_cache:
\* CachedEntityExtractor.predict returns the stored list, the extractor is
\* not called.
ExtractCached(a) ==
    /\ CallBegins(a)
    /\ EnsureInitialized(a)
    /\ ~IsBlank(a.text)
    /\ use_caching
    /\ a.use_cache
    /\ lru_index(lru, create_cache_key(a.text, PipelineLabels)) # 0
    /\ validation_stats' = fresh_validation_stats
    /\ merge_stats' = fresh_merge_stats
    /\ total_requests' = total_requests + 1
    /\ lru_hits' = lru_hits + 1
    /\ cache_hits' = cache_hits + 1
    /\ lru' = lru_touch(lru, create_cache_key(a.text, PipelineLabels))
    /\ pl_entities' =
          lru[lru_index(lru, create_cache_key(a.text, PipelineLabels))].result
    /\ pl_passes' = 0
    /\ text' = a.text
    /\ pl_pc' = "stages"
    /\ UNCHANGED <<use_caching, overlap_strategy, pl_stages, pl_result, exVars,
                   lru_misses, cache_misses, notPl>>

\* Lines 207-211 with caching, on a miss or with use_cache=False:
\* _uncached_predict calls self.extractor.predict(text, labels), which runs
\* with the default max_passes of predict.
ExtractPredict(a) ==
    /\ CallBegins(a)
    /\ EnsureInitialized(a)
    /\ ~IsBlank(a.text)
    /\ use_caching
    /\ ~(a.use_cache
         /\ lru_index(lru, create_cache_key(a.text, PipelineLabels)) # 0)
    /\ validation_stats' = fresh_validation_stats
    /\ merge_stats' = fresh_merge_stats
    /\ total_requests' = IF a.use_cache THEN total_requests + 1 ELSE total_requests
    /\ lru_misses' = IF a.use_cache THEN lru_misses + 1 ELSE lru_misses
    /\ text' = a.text
    /\ max_passes' = DefaultMaxPasses
    /\ pass_num' = 0
    /\ mutable_text_list' = << >>
    /\ processed_spans' = {}
    /\ all_entities' = << >>
    /\ filtered_out' = 0
    /\ calls' = 0
    /\ ex_pc' = "start"
    /\ pl_pc' = "predicting"
    /\ UNCHANGED <<use_caching, overlap_strategy, pl_entities, pl_stages,
                   pl_passes, pl_result, lru, lru_hits, cache_hits,
                   cache_misses, notPl>>

\* predict returned its spans, which carry the scores the labeler gave them;
\* with use_cache the lru_cache stores the list and the miss is counted.
PredictReturned(scores) ==
    /\ pl_pc = "predicting"
    /\ ex_pc = "returned"
    /\ pl_entities' = labelled(all_entities, text, scores)
    /\ pl_passes' = calls
    /\ IF pl_args.use_cache
       THEN /\ lru' = lru_store(lru, create_cache_key(text, PipelineLabels),
                                labelled(all_entities, text, scores), ch_maxsize)
            /\ cache_misses' = cache_misses + 1
       ELSE UNCHANGED <<lru, cache_misses>>
    /\ max_passes' = 0
    /\ pass_num' = 0
    /\ mutable_text_list' = << >>
    /\ processed_spans' = {}
    /\ all_entities' = << >>
    /\ filtered_out' = 0
    /\ calls' = 0
    /\ ex_pc' = "idle"
    /\ pl_pc' = "stages"
    /\ UNCHANGED <<base_extractor, use_caching, overlap_strategy, pl_args,
                   pl_stages, pl_result, pl_calls, text, min_confidence,
                   strict_validation, validation_stats, max_gap, merge_stats,
                   ch_maxsize, lru_hits, lru_misses, cache_hits,
                   total_requests, notPl>>

\* Lines 238-268: the statistics the stages left and the result, after the
\* validation returned checked, the overlap resolution left after_overlaps,
\* and the merge, when it ran, made merged of merged_input.
StagesReturn(a, run_validation, run_merge, checked, after_overlaps, merged_input, entities) ==
    /\ validation_stats' =
          IF run_validation THEN checked.stats ELSE validation_stats
    /\ merge_stats' =
          IF run_merge THEN stats_after(merge_stats, merged_input, entities)
          ELSE merge_stats
    /\ pl_stages' =
          (IF run_validation THEN <<"validate_entities">> ELSE << >>)
          \o (IF run_validation /\ a.resolve_overlaps
              THEN <<"resolve_overlaps">> ELSE << >>)
          \o (IF run_merge THEN <<"merge">> ELSE << >>)
    /\ pl_entities' = entities
    /\ pl_result' =
          [kind |-> "result", entities |-> entities,
           processing_info |->
              [method_used |-> "single-pass",
               passes_completed |-> a.max_passes,
               entities_found |-> Len(entities),
               merge_applied |-> a.merge_entities,
               cache_used |-> (a.use_cache /\ use_caching),
               validation_applied |-> a.enable_validation,
               overlap_resolution_applied |-> a.resolve_overlaps,
               validation_stats |->
                  IF run_validation THEN checked.stats ELSE << >>,
               min_confidence_used |-> min_confidence]]

\* Lines 232-236: the merge, which runs when merge_entities is on and
\* entities are left.
StagesMerge(a, run_validation, run_merge, checked, after_overlaps, merged_input) ==
    StagesReturn(a, run_validation, run_merge, checked, after_overlaps,
                 merged_input,
                 IF run_merge THEN merge(merged_input, text, max_gap).merged
                 ELSE after_overlaps)

\* Lines 225-229: the overlap resolution, inside the branch of the
\* validation.
StagesOverlaps(a, run_validation, checked, after_overlaps) ==
    StagesMerge(a, run_validation,
                a.merge_entities /\ after_overlaps # << >>,
                checked, after_overlaps, as_merged_input(after_overlaps))

\* Lines 216-223: the validation, which runs when enable_validation is on
\* and predict returned entities.
StagesValidate(a, run_validation, checked) ==
    StagesOverlaps(a, run_validation, checked,
                   IF run_validation /\ a.resolve_overlaps
                   THEN resolve_overlaps(checked.validated, overlap_strategy)
                   ELSE checked.validated)

\* The validator's statistics as validate_entities resets them.
reset_stats ==
    [validation_stats EXCEPT
        !.total_entities = Len(pl_entities),
        !.confidence_filtered = 0,
        !.position_invalid = 0,
        !.text_mismatch = 0,
        !.validation_errors = 0]

\* Lines 212-267: passes_completed, the validation with the overlap
\* resolution inside it, the merge, and the result.
RunStages ==
    /\ pl_pc = "stages"
    /\ StagesValidate(pl_args,
                      pl_args.enable_validation /\ pl_entities # << >>,
                      IF pl_args.enable_validation /\ pl_entities # << >>
                      THEN ValidateLoop(pl_entities, text, min_confidence,
                                        strict_validation, reset_stats,
                                        << >>, << >>)
                      ELSE [validated |-> pl_entities,
                            stats |-> validation_stats])
    /\ pl_pc' = "returned"
    /\ UNCHANGED <<base_extractor, use_caching, overlap_strategy, pl_args,
                   pl_passes, pl_calls, text, exVars, min_confidence,
                   strict_validation, max_gap, ch_maxsize, lru, lru_hits,
                   lru_misses, cache_hits, cache_misses, total_requests, notPl>>

\* The caller has the result or the exception; the locals of the call are
\* gone.
ExtractExit ==
    /\ pl_pc \in {"returned", "raised"}
    /\ pl_args' = << >>
    /\ pl_entities' = << >>
    /\ pl_stages' = << >>
    /\ pl_passes' = 0
    /\ pl_result' = << >>
    /\ text' = << >>
    /\ pl_pc' = "ready"
    /\ UNCHANGED <<base_extractor, use_caching, overlap_strategy, pl_calls,
                   exVars, min_confidence, strict_validation, validation_stats,
                   max_gap, merge_stats, ch_maxsize, lru, lru_hits, lru_misses,
                   cache_hits, cache_misses, total_requests, notPl>>

\* CloakExtraction.clear_cache(), between two calls of extract_entities: with
\* caching on and the components there, the clear_cache of the
\* CachedEntityExtractor (cache_clear() and clear_stats()); otherwise only a
\* warning is logged.
clear_cache ==
    /\ pl_pc = "ready"
    /\ IF use_caching /\ base_extractor # "None"
       THEN /\ lru' = << >>
            /\ lru_hits' = 0
            /\ lru_misses' = 0
            /\ cache_hits' = 0
            /\ cache_misses' = 0
            /\ total_requests' = 0
       ELSE UNCHANGED <<lru, lru_hits, lru_misses, cache_hits, cache_misses,
                        total_requests>>
    /\ UNCHANGED <<base_extractor, use_caching, overlap_strategy, pl_args,
                   pl_entities, pl_stages, pl_passes, pl_result, pl_calls,
                   pl_pc, text, exVars, min_confidence, strict_validation,
                   validation_stats, max_gap, merge_stats, ch_maxsize, notPl>>

\* Calls of extract_entities and of clear_cache on one CloakExtraction, one
\* after the other; while predict runs, its steps are those of the
\* multi-pass extractor.
PlNext ==
    \/ (/\ pl_pc = "ready"
        /\ pl_calls < MaxPipelineCalls
        /\ \E a \in PipelineArgs :
              \/ EnsureInitializedRaises(a)
              \/ ExtractBlank(a)
              \/ ExtractWithoutCaching(a)
              \/ ExtractCached(a)
              \/ ExtractPredict(a))
    \/ PredictStart
    \/ (/\ ex_pc = "loop"
        /\ \E out \in LabelerOutcomes(Len(text)) : Pass(out))
    \/ PredictReturn
    \/ (/\ pl_pc = "predicting"
        /\ ex_pc = "returned"
        /\ \E scores \in [1..Len(all_entities) -> PipelineScores] :
              PredictReturned(scores))
    \/ RunStages
    \/ ExtractExit
    \/ clear_cache

SpecPipeline == PlInit /\ [][PlNext]_vars

\* ---------------------------------------- extraction pipeline: properties
\* The call of extract_entities is over: it returned or it raised.
CallOver == pl_pc \in {"returned", "raised"}

\* C22: a call of extract_entities with an empty or blank text does not
\* raise; it returns the empty result, with no entities, and no labeler
\* call, validation, overlap resolution or merge was made for it, whether
\* the pipeline had its components or not and whatever the options are.
BlankTextNonFatal ==
    (CallOver /\ IsBlank(pl_args.text)) =>
        /\ pl_pc = "returned"
        /\ pl_result = _empty_result
        /\ pl_stages = << >>
        /\ pl_passes = 0

\* The stages the switches of the call ask for, in the order validate,
\* resolve overlaps, merge.
stages_asked(a) ==
    (IF a.enable_validation THEN <<"validate_entities">> ELSE << >>)
    \o (IF a.resolve_overlaps THEN <<"resolve_overlaps">> ELSE << >>)
    \o (IF a.merge_entities THEN <<"merge">> ELSE << >>)

\* C24: in a call of extract_entities that returned entities (so that every
\* stage had entities to work on), the stages that ran are those whose switch
\* is on, each switch deciding for its own stage only, in the order validate,
\* resolve overlaps, merge; and overlap_resolution_applied is true exactly
\* when the overlap resolution ran.
StageTogglesIndependent ==
    (pl_pc = "returned" /\ pl_result.entities # << >>) =>
        /\ pl_stages = stages_asked(pl_args)
        /\ pl_result.processing_info.overlap_resolution_applied
              = (\E i \in 1..Len(pl_stages) : pl_stages[i] = "resolve_overlaps")

\* C25: a call of extract_entities with max_passes = k on a text that is not
\* blank made at most k labeler calls, and passes_completed is at most the
\* number of labeler calls made.
MaxPassesCap ==
    (pl_pc = "returned" /\ ~IsBlank(pl_args.text)) =>
        /\ pl_passes <= pl_args.max_passes
        /\ pl_result.processing_info.passes_completed <= pl_passes

\* ---------------------------------------------------------- default strategy
\* longest text given to the default strategy
MaxDefaultLen == 4

\* The characters of the texts: a lower-case letter, an upper-case letter, a
\* digit, and one that is neither.
DefaultAlphabet == {"a", "B", "7", "-"}

\* The labels of the entities: two without a pattern of their own, in lower
\* and in mixed case, and one with a pattern.
DefaultLabels == {<<"m", "i", "s", "c">>, <<"M", "i", "s", "c">>, <<"I", "D">>}

\* What random.choice draws: some of string.digits, string.ascii_uppercase
\* and string.ascii_lowercase, the characters of DefaultAlphabet among them.
DrawnDigits == {"3", "7"}
DrawnUpper == {"B", "Q"}
DrawnLower == {"a", "x"}

\* char.isdigit(), char.isupper(), char.islower(), char.isalpha(),
\* char.isalnum() of an ASCII character.
IsDigit(c) == \E i \in 1..Len(Digits) : Digits[i] = c
IsUpper(c) == \E i \in 1..Len(UpperCase) : UpperCase[i] = c
IsLower(c) == \E i \in 1..Len(LowerCase) : LowerCase[i] = c
IsAlpha(c) == IsUpper(c) \/ IsLower(c)
IsAlnum(c) == IsDigit(c) \/ IsAlpha(c)

\* str.isdigit() and str.isalpha(): every character is one, and there is one.
isdigit(s) == s # << >> /\ \A i \in 1..Len(s) : IsDigit(s[i])
isalpha(s) == s # << >> /\ \A i \in 1..Len(s) : IsAlpha(s[i])

\* f"[{label.upper()}_REDACTED]"
labeled_placeholder(label) ==
    <<"[">> \o upper(label)
            \o <<"_", "R", "E", "D", "A", "C", "T", "E", "D", "]">>

\* Lines 72-79: the loop of the isalpha branch for one character.
alpha_choice(char) ==
    IF IsUpper(char) THEN DrawnUpper
    ELSE IF IsLower(char) THEN DrawnLower
    ELSE {char}

\* Lines 84-93: the loop of the mixed branch for one character.
mixed_choice(char) ==
    IF IsDigit(char) THEN DrawnDigits
    ELSE IF IsAlpha(char)
    THEN IF IsUpper(char) THEN DrawnUpper ELSE DrawnLower
    ELSE {char}

\* A loop that draws a letter without looking at the case of the original.
mixed_choice_any_case(char) ==
    IF IsDigit(char) THEN DrawnDigits
    ELSE IF IsAlpha(char) THEN DrawnUpper \cup DrawnLower
    ELSE {char}

\* What the loop named branch can append for the character.
loop_choice(branch, char) ==
    CASE branch = "alpha" -> alpha_choice(char)
      [] branch = "mixed" -> mixed_choice(char)
      [] OTHER -> mixed_choice_any_case(char)

\* ''.join(result): the texts the loop named branch can build.
joined(original, branch) ==
    {r \in [1..Len(original) ->
               UNION {loop_choice(branch, original[i]) : i \in 1..Len(original)}] :
        \A i \in 1..Len(original) : r[i] \in loop_choice(branch, original[i])}

\* A generic replacement that does not keep the case of the letters.
_generate_generic_replacement_any_case(original_text, label) ==
    IF isdigit(original_text)
    THEN [1..Len(original_text) -> DrawnDigits]
    ELSE IF \E i \in 1..Len(original_text) : IsAlnum(original_text[i])
    THEN joined(original_text, "any_case")
    ELSE {labeled_placeholder(label)}

\* _generate_generic_replacement(original_text, label): the texts it can
\* return.
_generate_generic_replacement(original_text, label) ==
    IF isdigit(original_text)
    THEN [1..Len(original_text) -> DrawnDigits]
    ELSE IF isalpha(original_text)
    THEN joined(original_text, "alpha")
    ELSE IF \E i \in 1..Len(original_text) : IsAlnum(original_text[i])
    THEN joined(original_text, "mixed")
    ELSE {labeled_placeholder(label)}

\* The keys of self.replacement_patterns.
PatternLabels ==
    {<<"e", "m", "a", "i", "l">>, <<"p", "h", "o", "n", "e">>,
     <<"s", "s", "n">>, <<"i", "d">>, <<"n", "u", "m", "b", "e", "r">>,
     <<"c", "o", "d", "e">>, <<"u", "s", "e", "r", "n", "a", "m", "e">>}

\* _generate_id(): two upper-case letters and six digits.
_generate_id ==
    {l \o d : l \in [1..2 -> DrawnUpper], d \in [1..6 -> DrawnDigits]}

\* _generate_code(): eight characters, upper-case letters or digits.
_generate_code == [1..8 -> DrawnUpper \cup DrawnDigits]

\* The ends of the range of a random.randint(lo, hi).
drawn_int(lo, hi) == {lo, hi}

\* _generate_number(): str(random.randint(100000, 999999))
_generate_number == {str(n) : n \in drawn_int(100000, 999999)}

\* _generate_ssn()
_generate_ssn ==
    {str(a) \o <<"-">> \o str(b) \o <<"-">> \o str(c) :
        a \in drawn_int(100, 999), b \in drawn_int(10, 99),
        c \in drawn_int(1000, 9999)}

\* _generate_phone()
_generate_phone ==
    {<<"(">> \o str(a) \o <<")", " ">> \o str(b) \o <<"-">> \o str(c) :
        a \in drawn_int(200, 999), b \in drawn_int(200, 999),
        c \in drawn_int(1000, 9999)}

\* _generate_username(): one of the prefixes and a number.
_generate_username ==
    {p \o str(n) :
        p \in {<<"u", "s", "e", "r">>, <<"d", "e", "m", "o">>,
               <<"t", "e", "s", "t">>, <<"s", "a", "m", "p", "l", "e">>},
        n \in drawn_int(100, 9999)}

\* _generate_email(): five to ten lower-case letters, '@' and a domain.
_generate_email ==
    {u \o <<"@">> \o d :
        u \in [1..5 -> DrawnLower] \cup [1..10 -> DrawnLower],
        d \in {<<"e", "x", "a", "m", "p", "l", "e", ".", "c", "o", "m">>,
               <<"t", "e", "s", "t", ".", "o", "r", "g">>,
               <<"s", "a", "m", "p", "l", "e", ".", "n", "e", "t">>,
               <<"d", "e", "m", "o", ".", "c", "o">>}}

\* self.replacement_patterns[label]()
replacement_pattern(label) ==
    CASE label = <<"e", "m", "a", "i", "l">> -> _generate_email
      [] label = <<"p", "h", "o", "n", "e">> -> _generate_phone
      [] label = <<"s", "s", "n">> -> _generate_ssn
      [] label = <<"i", "d">> -> _generate_id
      [] label = <<"n", "u", "m", "b", "e", "r">> -> _generate_number
      [] label = <<"c", "o", "d", "e">> -> _generate_code
      [] OTHER -> _generate_username

\* DefaultReplacementStrategy.get_replacement(entity): the texts it can
\* return.
get_replacement(entity) ==
    IF lower(entity.label) \in PatternLabels
    THEN replacement_pattern(lower(entity.label))
    ELSE _generate_generic_replacement(entity.text, lower(entity.label))

DsInit ==
    /\ ds_entity \in [label : DefaultLabels,
                      text : SeqsUpTo(DefaultAlphabet, MaxDefaultLen)]
    /\ ds_out = << >>
    /\ ds_pc = "start"
    /\ CoreIdle /\ RpIdle /\ MgIdle /\ VlIdle /\ ChIdle /\ PlIdle /\ UdIdle
    /\ OwnIdle /\ CcIdle

\* get_replacement(entity) returns replacement.
GetReplacement(replacement) ==
    /\ ds_pc = "start"
    /\ ds_out' = replacement
    /\ ds_pc' = "returned"
    /\ UNCHANGED <<ds_entity, notDs>>

DsNext ==
    /\ ds_pc = "start"
    /\ \E replacement \in get_replacement(ds_entity) : GetReplacement(replacement)

SpecDefault == DsInit /\ [][DsNext]_vars

\* ------------------------------------------------ default strategy: properties
HasAlnum(s) == \E i \in 1..Len(s) : IsAlnum(s[i])

\* The replacement has the structure of the original: the same length, a
\* digit for a digit, a letter of the same case for a letter, and the
\* original character anywhere else.
SameStructure(original, replacement) ==
    /\ Len(replacement) = Len(original)
    /\ \A i \in 1..Len(original) :
          /\ IsDigit(original[i]) => IsDigit(replacement[i])
          /\ IsUpper(original[i]) => IsUpper(replacement[i])
          /\ IsLower(original[i]) => IsLower(replacement[i])
          /\ ~IsAlnum(original[i]) => replacement[i] = original[i]

StructureOrPlaceholder ==
    IF HasAlnum(ds_entity.text)
    THEN SameStructure(ds_entity.text, ds_out)
    ELSE ds_out = labeled_placeholder(ds_entity.label)

\* C31 as stated: for every label, the replacement of a text with
\* alphanumeric content has the structure of the original, and the
\* replacement of any other text is the placeholder [LABEL_REDACTED].
DefaultPreservesStructureForEveryLabel ==
    ds_pc = "returned" => StructureOrPlaceholder

\* C31: for every label that, in lower case, is not one of the seven labels
\* with a pattern of their own (email, phone, ssn, id, number, code,
\* username), the replacement of a text with alphanumeric content has the
\* structure of the original, and the replacement of any other text is the
\* placeholder [LABEL_REDACTED] with the label in upper case.
DefaultPreservesStructure ==
    (ds_pc = "returned" /\ lower(ds_entity.label) \notin PatternLabels) =>
        StructureOrPlaceholder

\* A text with a lower-case letter, an upper-case letter, a digit and a
\* hyphen got a replacement that differs from it at every letter and digit.
DefaultPreservesStructureWitness ==
    /\ ds_pc = "returned"
    /\ ds_entity = [label |-> <<"M", "i", "s", "c">>,
                    text |-> <<"a", "B", "-", "7">>]
    /\ ds_out = <<"x", "Q", "-", "3">>

\* ------------------------------------------------- replace_with_user_data
\* The user_replacements arguments: a list of two values or one string for
\* person, a list for misc, an empty list for person, and none.
UserReplacements ==
    {[l \in {"person"} |-> [kind |-> "list", value |-> <<<<"X">>, <<"Y">>>>]],
     [l \in {"person"} |-> [kind |-> "str", value |-> <<"X">>]],
     [l \in {"misc"} |-> [kind |-> "list", value |-> <<<<"X">>, <<"Y">>>>]],
     [l \in {"person"} |-> [kind |-> "list", value |-> << >>]],
     << >>}

\* _select_user_replacement(user_data): the values it can return.
_select_user_replacement(user_data) ==
    IF user_data.kind = "str" THEN {user_data.value}
    ELSE IF user_data.value # << >>
    THEN {user_data.value[i] : i \in 1..Len(user_data.value)}
    ELSE {<< >>}

\* The loop of replace_with_user_data over the entities still to process,
\* with the local consistency_cache: every way it can end.
RECURSIVE UserLoop(_, _, _, _, _, _)
UserLoop(todo, user, consistency, consistency_cache, replaced, details) ==
    IF todo = << >>
    THEN {[replaced_text |-> replaced, details |-> sort_by_start(details),
           consistency_cache |-> consistency_cache]}
    ELSE LET entity == Head(todo)
             label == lower_label(entity.label)
             cache_key == <<label, entity.text>>
         IN  IF label \notin DOMAIN user
             THEN UserLoop(Tail(todo), user, consistency, consistency_cache,
                           replaced, details)
             ELSE UNION {
                 UserLoop(Tail(todo), user, consistency,
                          IF consistency
                          THEN SetItem(consistency_cache, cache_key, replacement)
                          ELSE consistency_cache,
                          IF replacement # << >>
                          THEN PySlice(replaced, 0, entity.start) \o replacement
                                  \o PySlice(replaced, entity.end, Len(replaced))
                          ELSE replaced,
                          IF replacement # << >>
                          THEN Append(details,
                                      [label |-> label, original |-> entity.text,
                                       replacement |-> replacement,
                                       start |-> entity.start, end |-> entity.end,
                                       strategy_used |-> "user_data"])
                          ELSE details) :
                 replacement \in
                     IF consistency /\ cache_key \in DOMAIN consistency_cache
                     THEN {consistency_cache[cache_key]}
                     ELSE _select_user_replacement(user[label])}

\* EntityReplacer(): no replace_with_user_data call made yet.
UdInit ==
    /\ faker_available \in BOOLEAN
    /\ replacement_cache = << >>
    /\ rp_text = << >>
    /\ rp_entities = << >>
    /\ rp_consistency = FALSE
    /\ rp_custom = << >>
    /\ rp_todo = << >>
    /\ replaced_text = << >>
    /\ replacement_details = << >>
    /\ rp_last = << >>
    /\ rp_results = << >>
    /\ rp_calls = 0
    /\ rp_pc = "ready"
    /\ user_replacements = << >>
    /\ ud_given = {}
    /\ CoreIdle /\ MgIdle /\ VlIdle /\ ChIdle /\ PlIdle /\ DsIdle /\ OwnIdle
    /\ CcIdle

\* replace_with_user_data(txt, entities, user, ensure_consistency), from its
\* call to its return, the loop ending as out.
ReplaceWithUserData(txt, entities, user, consistency, out) ==
    /\ rp_pc = "ready"
    /\ rp_calls < MaxReplaceCalls
    /\ rp_calls' = rp_calls + 1
    /\ rp_text' = txt
    /\ rp_entities' = entities
    /\ user_replacements' = user
    /\ rp_consistency' = consistency
    /\ IF entities = << >> \/ user = << >>
       THEN /\ replaced_text' = txt
            /\ replacement_details' = << >>
            /\ ud_given' = ud_given
       ELSE /\ replaced_text' = out.replaced_text
            /\ replacement_details' = out.details
            /\ ud_given' =
                  IF consistency
                  THEN ud_given \cup
                       {[key |-> k, value |-> out.consistency_cache[k],
                         user |-> user] : k \in DOMAIN out.consistency_cache}
                  ELSE ud_given
    /\ rp_pc' = "returned"
    /\ UNCHANGED notUd

\* The caller has the result; the locals of the call are gone.
UserDataExit ==
    /\ rp_pc = "returned"
    /\ rp_text' = << >>
    /\ rp_entities' = << >>
    /\ user_replacements' = << >>
    /\ rp_consistency' = FALSE
    /\ replaced_text' = << >>
    /\ replacement_details' = << >>
    /\ rp_pc' = "ready"
    /\ UNCHANGED <<rp_calls, ud_given, notUd>>

\* Calls of replace_with_user_data on one Replacer.
UdNext ==
    \/ (/\ rp_pc = "ready"
        /\ rp_calls < MaxReplaceCalls
        /\ \E entities \in ReplaceEntityLists(MaxReplaceEntities) :
           \E user \in UserReplacements :
           \E consistency \in BOOLEAN :
           \E out \in UserLoop(sorted_entities(entities), user, consistency,
                               << >>, ReplaceText(entities), << >>) :
              ReplaceWithUserData(ReplaceText(entities), entities, user,
                                  consistency, out))
    \/ UserDataExit

SpecUserData == UdInit /\ [][UdNext]_vars

\* C32: in a replace_with_user_data call with consistency on, every detail is
\* tagged user_data, two details with the same (label, original text) have the
\* same replacement, and a detail whose (label, original text) got a value in
\* an earlier call with consistency on and the same user_replacements on the
\* same Replacer, no clear_cache having been called, has that value again.
UserDataConsistency ==
    (rp_pc = "returned" /\ rp_consistency) =>
        \A i \in 1..Len(replacement_details) :
            LET d == replacement_details[i]
            IN  /\ d.strategy_used = "user_data"
                /\ \A j \in 1..Len(replacement_details) :
                      (/\ replacement_details[j].label = d.label
                       /\ replacement_details[j].original = d.original) =>
                          replacement_details[j].replacement = d.replacement
                /\ \A g \in ud_given :
                      (g.key = <<d.label, d.original>> /\ g.user = user_replacements)
                          => g.value = d.replacement

\* ------------------------------------------------ replacer cache: properties
\* The step is a turn of the loop of replace, for the entity at the head of
\* rp_todo.
ReplaceEntityStep ==
    rp_pc = "loop" /\ rp_todo # << >> /\ rp_todo' = Tail(rp_todo)

\* The step is clear_cache().
ClearCacheStep == rp_pc = "ready" /\ rp_pc' = "ready" /\ replacement_cache' = << >>

\* C33: an entry of the replacement cache stays as it is in every step but
\* clear_cache; a turn of replace with consistency on for a pair that has an
\* entry returns the value of the entry; with consistency off a turn invokes
\* the strategies, takes nothing from the cache and leaves the cache as it
\* is; and nothing but a turn of replace with consistency on adds an entry.
CacheWriteOnce ==
    [][/\ ~ClearCacheStep =>
             \A k \in DOMAIN replacement_cache :
                 /\ k \in DOMAIN replacement_cache'
                 /\ replacement_cache'[k] = replacement_cache[k]
       /\ (replacement_cache' # replacement_cache /\ ~ClearCacheStep) =>
             (ReplaceEntityStep /\ rp_consistency)
       /\ ReplaceEntityStep =>
             LET entity == Head(rp_todo)
                 cache_key == <<lower_label(entity.label), entity.text>>
             IN  /\ (rp_consistency /\ cache_key \in DOMAIN replacement_cache) =>
                        /\ rp_last'.cached
                        /\ rp_last'.replacement = replacement_cache[cache_key][1]
                 /\ ~rp_consistency =>
                        /\ replacement_cache' = replacement_cache
                        /\ ~rp_last'.cached
                        /\ rp_last'.trace # << >>]_vars

\* The second replace call on the Replacer, with consistency on, was given
\* the cached value for a pair whose entry an earlier call wrote; the entry
\* is still there.
CacheWriteOnceWitness ==
    /\ rp_calls = 2
    /\ rp_pc = "loop"
    /\ rp_consistency
    /\ rp_last # << >>
    /\ rp_last.cached
    /\ <<lower_label(rp_last.entity.label), rp_last.entity.text>>
          \in DOMAIN replacement_cache
    /\ replacement_cache[<<lower_label(rp_last.entity.label),
                           rp_last.entity.text>>][1] = rp_last.replacement

\* ------------------------------------------------- span records, by reference
\* The span records are dict objects: a list holds references to them, and a
\* write through one reference is seen through every other.  heap[ref] is
\* the dict behind the reference ref.
MaxOwnEntities == 2

\* The references of a list, read: the dicts behind them.
deref(h, refs) == [i \in 1..Len(refs) |-> h[refs[i]]]

\* The name bound to the same dict: no copy is made.
same_dict(h, ref) == [heap |-> h, ref |-> ref]

\* entity.copy(): a new dict with the same fields.
copy(h, ref) == [heap |-> Append(h, h[ref]), ref |-> Len(h) + 1]

\* The loop of validate_entities, on references: a kept entity is appended
\* as the dict _clean_entity returns, a copy of it with the text stripped.
RECURSIVE ValidateRefs(_, _, _, _, _, _)
ValidateRefs(h, rest, txt, threshold, strict, out) ==
    IF rest = << >> THEN [heap |-> h, out |-> out]
    ELSE IF counted_in(h[Head(rest)], txt, threshold, strict) = "valid_entities"
    THEN LET cleaned == copy(h, Head(rest))
         IN  ValidateRefs([cleaned.heap EXCEPT
                              ![cleaned.ref] =
                                  _clean_entity(cleaned.heap[cleaned.ref], txt, strict)],
                          Tail(rest), txt, threshold, strict,
                          Append(out, cleaned.ref))
    ELSE ValidateRefs(h, Tail(rest), txt, threshold, strict, out)

\* sorted(entities, key=lambda x: x["start"]): a new list of the same
\* references.
sorted_refs(h, refs) ==
    LET keyed == [i \in 1..Len(refs) |-> [start |-> h[refs[i]].start, ref |-> refs[i]]]
        in_order == sort_by_start(keyed)
    IN  [i \in 1..Len(in_order) |-> in_order[i].ref]

\* The loop of merge, on references: every write goes to the dict behind
\* current, a copy of the span that opened the run.
RECURSIVE MergeRefs(_, _, _, _, _, _)
MergeRefs(h, rest, txt, gap, current, merged) ==
    IF rest = << >>
    THEN [heap |-> [h EXCEPT ![current] = pop_count(h[current])],
          out |-> Append(merged, current)]
    ELSE LET next_entity == h[Head(rest)]
             cur == h[current]
         IN  IF can_merge(cur, next_entity, gap)
             THEN MergeRefs([h EXCEPT ![current] =
                                [cur EXCEPT
                                    !.text = strip(PySlice(txt, cur.start, next_entity.end)),
                                    !.end = next_entity.end,
                                    !.score = weighted_average(cur.score, cur.count,
                                                               next_entity.score),
                                    !.count = cur.count + 1]],
                            Tail(rest), txt, gap, current, merged)
             ELSE LET popped == [h EXCEPT ![current] = pop_count(h[current])]
                      opened == copy(popped, Head(rest))
                  IN  MergeRefs([opened.heap EXCEPT
                                    ![opened.ref] = with_count(opened.heap[opened.ref])],
                                Tail(rest), txt, gap, opened.ref,
                                Append(merged, current))

\* merge(entities, text), on references.
merge_refs(h, refs, txt, gap) ==
    IF refs = << >> THEN [heap |-> h, out |-> << >>]
    ELSE LET sorted == sorted_refs(h, refs)
             opened == copy(h, sorted[1])
         IN  MergeRefs([opened.heap EXCEPT
                           ![opened.ref] = with_count(opened.heap[opened.ref])],
                       Tail(sorted), txt, gap, opened.ref, << >>)

\* resolve_overlaps(entities, strategy), on references: the list returned
\* holds the dicts of the input that were not removed; none is written.
resolve_refs(h, refs, strat) ==
    IF refs = << >> THEN << >>
    ELSE IF _detect_overlaps(deref(h, refs)) = << >> THEN refs
    ELSE not_removed(refs, MarkFrom(deref(h, refs), _detect_overlaps(deref(h, refs)),
                                    1, {}, strat))

\* A list of span dicts made by the caller, about to be passed to op.
Passed(op, entities) ==
    /\ heap = entities
    /\ own_op = op
    /\ own_input = [i \in 1..Len(entities) |-> i]
    /\ own_before = entities
    /\ own_output = << >>
    /\ own_pc = "start"

\* The caller holds a list of up to MaxOwnEntities span dicts and a
\* Validator, a Merger, a Redactor and a Replacer, and is about to pass the
\* list to one of validate_entities, resolve_overlaps, merge, redact and
\* replace.
OwnInit ==
    /\ AnonymizersReady
    /\ text = << >>
    /\ ChunkIdle /\ ExIdle /\ ParIdle /\ OvIdle /\ MgIdle /\ VlIdle
    /\ ChIdle /\ PlIdle /\ DsIdle /\ UdIdle /\ CcIdle
    /\ \/ \E entities \in SeqsUpTo(ValidateEntities, MaxOwnEntities) :
             Passed("validate_entities", entities)
       \/ \E entities \in SeqsUpTo(OverlapSpans, MaxOwnEntities) :
             Passed("resolve_overlaps", entities)
       \/ \E entities \in SeqsUpTo(MergeSpans, MaxOwnEntities) :
             Passed("merge", entities)
       \/ \E entities \in AnRedactLists(MaxOwnEntities) :
             Passed("redact", entities)
       \/ \E entities \in AnReplaceLists(MaxOwnEntities) :
             Passed("replace", entities)

\* validate_entities(entities, text) of a Validator with strict_validation
\* strict, from its call to its return.
OwnValidate(strict) ==
    /\ own_op = "validate_entities"
    /\ own_pc = "start"
    /\ LET out == IF own_input = << >> THEN [heap |-> heap, out |-> << >>]
                  ELSE ValidateRefs(heap, own_input, ValidateText,
                                    DefaultMinConfidence, strict, << >>)
       IN  /\ heap' = out.heap
           /\ own_output' = out.out
    /\ own_pc' = "returned"
    /\ UNCHANGED <<own_op, own_input, own_before, notOwn>>

\* resolve_overlaps(entities, strategy), from its call to its return.
OwnResolve(strat) ==
    /\ own_op = "resolve_overlaps"
    /\ own_pc = "start"
    /\ own_output' = resolve_refs(heap, own_input, strat)
    /\ own_pc' = "returned"
    /\ UNCHANGED <<heap, own_op, own_input, own_before, notOwn>>

\* merge(entities, text) of a Merger with max_gap gap, from its call to its
\* return.
OwnMerge(gap) ==
    /\ own_op = "merge"
    /\ own_pc = "start"
    /\ LET out == merge_refs(heap, own_input, MergeText, gap)
       IN  /\ heap' = out.heap
           /\ own_output' = out.out
    /\ own_pc' = "returned"
    /\ UNCHANGED <<own_op, own_input, own_before, notOwn>>

\* redact(text, entities, numbered, consistent_ids) with the list: the
\* method reads the dicts behind the references.
OwnRedact(num, cons) ==
    /\ own_op = "redact"
    /\ own_pc = "start"
    /\ Redact(SourceText(deref(heap, own_input)), deref(heap, own_input), num, cons)
    /\ UNCHANGED issued

\* replace(text, entities, ensure_consistency) with the list: the method
\* reads the dicts behind the references.
OwnReplace(consistency) ==
    /\ own_op = "replace"
    /\ own_pc = "start"
    /\ ReplaceStart(ReplaceText(deref(heap, own_input)), deref(heap, own_input),
                    consistency, << >>)

\* The caller has the result of redact or of replace.
OwnReturned ==
    /\ own_pc = "start"
    /\ \/ own_op = "redact" /\ rd_pc = "returned"
       \/ own_op = "replace" /\ rp_pc = "returned"
    /\ own_pc' = "returned"
    /\ UNCHANGED <<heap, own_op, own_input, own_before, own_output, notOwn>>

OwnNext ==
    \/ \E strict \in BOOLEAN : OwnValidate(strict)
    \/ \E strat \in Strategies : OwnResolve(strat)
    \/ \E gap \in {0, DefaultMaxGap} : OwnMerge(gap)
    \/ \E num, cons \in BOOLEAN : OwnRedact(num, cons)
    \/ \E consistency \in BOOLEAN : OwnReplace(consistency)
    \/ ReplaceEntity
    \/ ReplaceReturn
    \/ OwnReturned

SpecOwnership == OwnInit /\ [][OwnNext]_vars

\* --------------------------------------------------- span records: properties
\* C34: validate_entities, resolve_overlaps, merge, redact and replace never
\* modify the span records passed to them: during and after each call the
\* dict behind every reference of the list passed in has the same fields
\* with the same values as before the call (the same label, text, start, end
\* and score, and no added field), and the list passed in holds the same
\* references.
InputSpansUnmodified ==
    /\ Len(own_input) = Len(own_before)
    /\ \A i \in 1..Len(own_input) :
          /\ own_input[i] = i
          /\ DOMAIN heap[own_input[i]] = DOMAIN own_before[i]
          /\ heap[own_input[i]] = own_before[i]

\* merge has returned one span made of two: the dict returned is a new one,
\* its end and its text are not those of the span that opened the run.
InputSpansUnmodifiedWitness ==
    /\ own_op = "merge"
    /\ own_pc = "returned"
    /\ Len(own_input) = 2
    /\ Len(own_output) = 1
    /\ own_output[1] \notin {own_input[i] : i \in 1..Len(own_input)}
    /\ \A i \in 1..Len(own_input) : heap[own_output[1]] # heap[own_input[i]]

\* validate_entities has returned a span whose text it stripped: the dict
\* returned is a new one and the one passed in still has the text it had.
ValidateCopiesWitness ==
    /\ own_op = "validate_entities"
    /\ own_pc = "returned"
    /\ Len(own_output) >= 1
    /\ \E i \in 1..Len(own_input) :
          /\ heap[own_output[1]].text # heap[own_input[i]].text
          /\ heap[own_output[1]].start = heap[own_input[i]].start
          /\ heap[own_output[1]].end = heap[own_input[i]].end

\* resolve_overlaps has returned a list with one of the two dicts it was
\* given, the very same one.
ResolveSharesWitness ==
    /\ own_op = "resolve_overlaps"
    /\ own_pc = "returned"
    /\ Len(own_input) = 2
    /\ Len(own_output) = 1
    /\ own_output[1] \in {own_input[i] : i \in 1..Len(own_input)}

\* redact and replace have each returned after going over two spans.
AnonymizersReadWitness ==
    /\ own_pc = "returned"
    /\ own_op \in {"redact", "replace"}
    /\ Len(own_input) = 2

\* ------------------------------------- overlap resolution: needless removals
\* The indices of the spans resolve_overlaps returned.
surviving == {i \in 0..(Len(ov_entities) - 1) : i \notin to_remove}

\* C35: resolve_overlaps drops a span only when needed: every span it
\* removed intersects a span of the returned list, and a span that
\* intersects no other span of the input is in the returned list.
RemovedOnlyWhenNeeded ==
    ov_pc = "returned" =>
        /\ \A i \in to_remove :
              \E j \in surviving :
                  Intersect(ov_entities[i + 1], ov_entities[j + 1])
        /\ \A i \in 0..(Len(ov_entities) - 1) :
              (\A j \in 0..(Len(ov_entities) - 1) :
                  j # i => ~Intersect(ov_entities[i + 1], ov_entities[j + 1]))
              => i \in surviving

\* ------------------------------------------------------- merger: coverage
\* The returned span that the i-th span of the sorted input went into: the
\* turn for the (k+1)-th span opened a new candidate when it did not merge.
emitted_for(i) == 1 + Cardinality({k \in 1..(i - 1) : ~mg_steps[k].merged})

\* C36: merge never shrinks or loses coverage: every input span went into
\* exactly one returned span, and every returned span starts at the smallest
\* start and ends at the largest end of the input spans that went into it.
MergeKeepsCoverage ==
    (mg_pc = "returned" /\ mg_entities # << >>) =>
        LET sorted == sort_by_start(mg_entities)
        IN  /\ \A i \in 1..Len(sorted) : emitted_for(i) \in 1..Len(mg_merged)
            /\ \A g \in 1..Len(mg_merged) :
                  LET constituents == {i \in 1..Len(sorted) : emitted_for(i) = g}
                  IN  /\ constituents # {}
                      /\ \A i \in constituents :
                            /\ mg_merged[g].start <= sorted[i].start
                            /\ sorted[i].end <= mg_merged[g].end
                      /\ \E i \in constituents : mg_merged[g].start = sorted[i].start
                      /\ \E i \in constituents : mg_merged[g].end = sorted[i].end

\* ------------------------------------------------- pipeline: after predict
\* The most spans predict returned.
MaxStageEntities == 3

\* The text of the call.
StageText == <<"a", " ", "b">>

\* The ranges of the spans predict returned: every range of the text, and
\* one that ends beyond it.
StageRanges == {<<0, 1>>, <<1, 2>>, <<2, 3>>, <<0, 2>>, <<1, 3>>, <<0, 3>>, <<2, 4>>}

\* A span predict returned, with the fields the labeler gave it.
stage_span(l, r, sc) ==
    [label |-> l,
     text |-> [kind |-> "str", value |-> PySlice(StageText, r[1], r[2])],
     start |-> r[1], end |-> r[2], score |-> sc]

\* The spans predict returned: persons on every range and dates on the
\* one-character ranges with the score 0.9, two-character persons with the
\* score 0.5, and a date with a score below min_confidence.
StageSpans ==
    {stage_span(<<"p", "e", "r", "s", "o", "n">>, r, 9) : r \in StageRanges}
    \cup {stage_span(<<"d", "a", "t", "e">>, r, 9) : r \in {<<0, 1>>, <<1, 2>>, <<2, 3>>}}
    \cup {stage_span(<<"p", "e", "r", "s", "o", "n">>, r, 5) : r \in {<<0, 2>>, <<1, 3>>}}
    \cup {stage_span(<<"d", "a", "t", "e">>, <<0, 1>>, 2)}

\* extract_entities(StageText, labels) with the defaults (validation,
\* overlap resolution and merge on) and use_cache=False, on a pipeline with
\* its components that was built with any strict_validation and any
\* overlap_strategy, at the point where predict has returned its spans
\* (line 214).
StagesInit ==
    /\ base_extractor = "EntityExtractor"
    /\ use_caching = TRUE
    /\ overlap_strategy \in Strategies
    /\ pl_args = [text |-> StageText, max_passes |-> DefaultMaxPasses,
                  merge_entities |-> TRUE, use_cache |-> FALSE,
                  enable_validation |-> TRUE, resolve_overlaps |-> TRUE,
                  model_path |-> "none"]
    /\ pl_entities \in SeqsUpTo(StageSpans, MaxStageEntities)
    /\ pl_stages = << >>
    /\ pl_passes = IF pl_entities = << >> THEN 1 ELSE 2
    /\ pl_result = << >>
    /\ pl_calls = 1
    /\ pl_pc = "stages"
    /\ min_confidence = DefaultMinConfidence
    /\ strict_validation \in BOOLEAN
    /\ validation_stats = NoValidationStats
    /\ max_gap = DefaultMaxGap
    /\ merge_stats = NoMergeStats
    /\ ch_maxsize = DefaultCacheSize
    /\ vl_text = << >> /\ vl_entities = << >> /\ vl_threshold = 0
    /\ validated = << >> /\ vl_fate = << >> /\ vl_calls = 0 /\ vl_pc = "idle"
    /\ mg_text = << >> /\ mg_entities = << >> /\ mg_merged = << >>
    /\ mg_steps = << >> /\ mg_parts = << >> /\ mg_calls = 0 /\ mg_pc = "idle"
    /\ lru = << >> /\ lru_hits = 0 /\ lru_misses = 0
    /\ cache_hits = 0 /\ cache_misses = 0 /\ total_requests = 0
    /\ th = << >> /\ ch_log = << >> /\ ch_calls = 0
    /\ text = StageText
    /\ ChunkIdle /\ ExIdle /\ ParIdle /\ OvIdle /\ RdIdle /\ RpIdle /\ MoreIdle

StagesNext ==
    \/ RunStages
    \/ ExtractExit

SpecStages == StagesInit /\ [][StagesNext]_vars

ThreeStagesOn ==
    /\ pl_pc = "returned"
    /\ pl_args.enable_validation
    /\ pl_args.resolve_overlaps
    /\ pl_args.merge_entities
    /\ pl_result.kind = "result"

AllocatorNext ==
    \/ BtNext
    \/ (/\ bt_pc = "ready"
        /\ rd_pc = "ready"
        /\ rd_calls < MaxRedactCalls
        /\ \E entities \in AnRedactLists(MaxRedactEntities - 1) :
              \E num, cons \in BOOLEAN :
                 /\ ~(num /\ cons)
                 /\ Redact(SourceText(entities), entities, num, cons)
                 /\ UNCHANGED issued)

SpecAllocator == BtInit /\ [][AllocatorNext]_vars

\* The ids 1..n as strings.
first_ids(n) == {str(i) : i \in 1..n}

\* The ids in use for every label are 1..n for some n.
IdsContiguous ==
    \A label \in DOMAIN used_ids_per_label :
        used_ids_per_label[label] = first_ids(Cardinality(used_ids_per_label[label]))

\* The ids a numbered redact call gave were not in use when it began, are in
\* use now, and one id was given twice for a label only to two spans with the
\* same text in a call with consistent ids.
IdsIssuedOnce ==
    (rd_pc = "returned" /\ numbered) =>
        /\ \A k \in 1..Len(redaction_details) :
              LET d == redaction_details[k]
              IN  /\ d.redaction_id \notin used_ids(used_at_call, d.label)
                  /\ d.redaction_id \in used_ids(used_ids_per_label, d.label)
        /\ \A j, k \in 1..Len(redaction_details) :
              LET d == redaction_details[j]
                  e == redaction_details[k]
              IN  (j # k /\ d.label = e.label /\ d.redaction_id = e.redaction_id) =>
                      (consistent_ids /\ d.original = e.original)

\* C38: whatever redact and batch_redact calls were made since construction
\* or the last clear_history, the ids in use for each label are exactly
\* 1..n, no id was handed out twice for a label, and right after
\* clear_history the next id for any label is 1.
IdAllocatorInvariant ==
    /\ [](IdsContiguous /\ IdsIssuedOnce)
    /\ [][ClearHistory =>
             \A k \in RedactKeys :
                 _generate_unique_id(used_ids_per_label', upper(k[1])).id = str(1)]_vars

\* A redact call without consistent ids gave two spans of one label the ids
\* 2 and 3, after an earlier call on the same Redactor took the id 1.
IdAllocatorInvariantWitness ==
    /\ rd_pc = "returned"
    /\ numbered
    /\ ~consistent_ids
    /\ rd_calls = 2
    /\ Len(redaction_details) = 2
    /\ redaction_details[1].label = redaction_details[2].label
    /\ {redaction_details[1].redaction_id, redaction_details[2].redaction_id}
          = {str(2), str(3)}

\* batch_redact has returned and the ids in use for a label are 1 and 2.
BatchAllocatesWitness ==
    /\ bt_pc = "returned"
    /\ \E label \in DOMAIN used_ids_per_label :
          used_ids_per_label[label] = first_ids(2)

\* clear_history was called on a Redactor with ids in use, and the next
\* redact call gave the id 1.
ClearedAllocatorWitness ==
    /\ rd_pc = "returned"
    /\ numbered
    /\ rd_calls = 2
    /\ used_at_call = << >>
    /\ Len(redaction_details) >= 1
    /\ redaction_details[1].redaction_id = str(1)

\* --------------------------------------------------------- concurrent redact
\* The spans of one redact call of a thread.
MaxThreadEntities == 2

\* The two threads that call cloak.redact.
RedactThreads == {1, 2}

\* The locals of a thread that is not in a call; self is the position in
\* redactors of the EntityRedactor the getter returned, 0 before that.
NotCalling ==
    [pc |-> "idle", todo |-> << >>, self |-> 0, entity_to_id |-> << >>,
     candidate_id |-> 0]

\* The module cloak just imported: _global_redactor_instance = None and no
\* EntityRedactor constructed; two threads about to call cloak.redact; the
\* callers either hold a lock of their own around every call or do not.
CcInit ==
    /\ redact_threads = [t \in RedactThreads |-> NotCalling]
    /\ serialized \in BOOLEAN
    /\ _global_redactor_instance = 0
    /\ redactors = << >>
    /\ text = << >>
    /\ ChunkIdle /\ ExIdle /\ ParIdle /\ OvIdle /\ RdIdle
    /\ RpIdle /\ MgIdle /\ VlIdle /\ ChIdle /\ PlIdle /\ DsIdle /\ UdIdle /\ OwnIdle

\* The thread is inside cloak.redact.
InCall(t) == redact_threads[t].pc \notin {"idle", "returned"}

\* A while condition that never finds the id in use.
never_in_used_ids(used, label, candidate) == FALSE

\* str(candidate_id) in used_ids
in_used_ids(used, label, candidate) == str(candidate) \in used_ids(used, label)

\* Thread t calls cloak.redact; the extraction gave entities, and the call
\* goes on to _get_global_redactor_instance().  Callers that serialize their
\* calls wait until no other thread is inside.
ThreadCall(t, entities) ==
    /\ redact_threads[t].pc = "idle"
    /\ serialized => \A u \in RedactThreads : ~InCall(u)
    /\ redact_threads' =
          [redact_threads EXCEPT ![t] = [NotCalling EXCEPT !.pc = "getter",
                                                           !.todo = entities]]
    /\ UNCHANGED <<serialized, _global_redactor_instance, redactors, notCc>>

\* if _global_redactor_instance is None, the test alone.
GetterTest(t) ==
    /\ redact_threads[t].pc = "getter"
    /\ redact_threads' =
          [redact_threads EXCEPT
              ![t].pc = IF _global_redactor_instance = 0
                        THEN "construct" ELSE "getter_return"]
    /\ UNCHANGED <<serialized, _global_redactor_instance, redactors, notCc>>

\* _global_redactor_instance = EntityRedactor(): a new object with an empty
\* used_ids_per_label, assigned to the global whatever it holds by now.
GetterConstruct(t) ==
    /\ redact_threads[t].pc = "construct"
    /\ redactors' = Append(redactors, << >>)
    /\ _global_redactor_instance' = Len(redactors) + 1
    /\ redact_threads' = [redact_threads EXCEPT ![t].pc = "getter_return"]
    /\ UNCHANGED <<serialized, notCc>>

\* return _global_redactor_instance, read at this moment; redactor.redact
\* is called on it with the defaults (numbered, consistent ids), and
\* _build_entity_id_map begins with an empty entity_to_id.
GetterReturn(t) ==
    /\ redact_threads[t].pc = "getter_return"
    /\ redact_threads' =
          [redact_threads EXCEPT ![t].self = _global_redactor_instance,
                                 ![t].pc = "build"]
    /\ UNCHANGED <<serialized, _global_redactor_instance, redactors, notCc>>

\* One turn of the loop of _build_entity_id_map, up to the call of
\* _generate_unique_id and its used_ids = self.used_ids_per_label[label],
\* candidate_id = 1; the defaultdict makes the set of a new label.
ThreadBuild(t) ==
    LET my == redact_threads[t]
    IN  /\ my.pc = "build"
        /\ my.todo # << >>
        /\ LET entity_key == <<my.todo[1].label, my.todo[1].text>>
               label == upper(my.todo[1].label)
               mine == redactors[my.self]
           IN  IF entity_key \in DOMAIN my.entity_to_id
               THEN /\ redact_threads' =
                          [redact_threads EXCEPT ![t].todo = Tail(my.todo)]
                    /\ UNCHANGED redactors
               ELSE /\ redact_threads' =
                          [redact_threads EXCEPT ![t].pc = "while",
                                                 ![t].candidate_id = 1]
                    /\ redactors' =
                          [redactors EXCEPT ![my.self] =
                              [l \in DOMAIN mine \cup {label} |->
                                  used_ids(mine, l)]]
        /\ UNCHANGED <<serialized, _global_redactor_instance, notCc>>

\* while str(candidate_id) in used_ids: candidate_id += 1, one test.
ThreadTest(t) ==
    LET my == redact_threads[t]
    IN  /\ my.pc = "while"
        /\ redact_threads' =
              IF in_used_ids(redactors[my.self], upper(my.todo[1].label),
                             my.candidate_id)
              THEN [redact_threads EXCEPT ![t].candidate_id = my.candidate_id + 1]
              ELSE [redact_threads EXCEPT ![t].pc = "add"]
        /\ UNCHANGED <<serialized, _global_redactor_instance, redactors, notCc>>

\* used_ids.add(str(candidate_id)); return str(candidate_id), and
\* entity_to_id[entity_key] = unique_id.
ThreadAdd(t) ==
    LET my == redact_threads[t]
        label == upper(my.todo[1].label)
        entity_key == <<my.todo[1].label, my.todo[1].text>>
    IN  /\ my.pc = "add"
        /\ redactors' =
              [redactors EXCEPT
                  ![my.self][label] = @ \cup {str(my.candidate_id)}]
        /\ redact_threads' =
              [redact_threads EXCEPT
                  ![t].entity_to_id = SetItem(my.entity_to_id, entity_key,
                                              str(my.candidate_id)),
                  ![t].todo = Tail(my.todo),
                  ![t].candidate_id = 0,
                  ![t].pc = "build"]
        /\ UNCHANGED <<serialized, _global_redactor_instance, notCc>>

\* The map is built; the loop over the spans reads the ids from it and the
\* call returns.
ThreadReturn(t) ==
    /\ redact_threads[t].pc = "build"
    /\ redact_threads[t].todo = << >>
    /\ redact_threads' = [redact_threads EXCEPT ![t].pc = "returned"]
    /\ UNCHANGED <<serialized, _global_redactor_instance, redactors, notCc>>

CcNext ==
    \E t \in RedactThreads :
        \/ \E entities \in AnRedactLists(MaxThreadEntities) : ThreadCall(t, entities)
        \/ GetterTest(t)
        \/ GetterConstruct(t)
        \/ GetterReturn(t)
        \/ ThreadBuild(t)
        \/ ThreadTest(t)
        \/ ThreadAdd(t)
        \/ ThreadReturn(t)

SpecConcurrent == CcInit /\ [][CcNext]_vars

\* ---------------------------------------------- concurrent redact: properties
\* The two threads work on the same EntityRedactor.
SameRedactor(t, u) ==
    /\ redact_threads[t].self # 0
    /\ redact_threads[t].self = redact_threads[u].self

\* Two different (label, text) pairs with the same upper-cased label, of the
\* same call or of the calls of two threads on the same EntityRedactor, have
\* different ids.
DistinctPairsDistinctIds ==
    \A t, u \in RedactThreads :
        SameRedactor(t, u) =>
            \A k \in DOMAIN redact_threads[t].entity_to_id :
                \A m \in DOMAIN redact_threads[u].entity_to_id :
                    (k # m /\ upper(k[1]) = upper(m[1])) =>
                        redact_threads[t].entity_to_id[k]
                            # redact_threads[u].entity_to_id[m]

\* C39 as stated: when two threads call redact on the same Redactor, with or
\* without a lock of their own, no interleaving gives two different
\* (label, text) pairs of the same label the same id.
ConcurrentIdsDistinct == DistinctPairsDistinctIds

\* C39, amended: when the callers serialize their calls, both threads get
\* the same Redactor from the getter and two different (label, text) pairs
\* of the same label never receive the same id.
SerializedIdsDistinct ==
    serialized =>
        /\ Len(redactors) <= 1
        /\ DistinctPairsDistinctIds

\* Two serialized calls have returned from the one Redactor, one thread's
\* pair has the id 1 and the other thread's different pair the id 2.
SerializedIdsDistinctWitness ==
    /\ serialized
    /\ \A t \in RedactThreads : redact_threads[t].pc = "returned"
    /\ SameRedactor(1, 2)
    /\ \E k \in DOMAIN redact_threads[1].entity_to_id :
          \E m \in DOMAIN redact_threads[2].entity_to_id :
              /\ k # m
              /\ upper(k[1]) = upper(m[1])
              /\ {redact_threads[1].entity_to_id[k],
                  redact_threads[2].entity_to_id[m]} = {str(1), str(2)}

\* Without a lock the getter gave the two threads two Redactors, and the
\* different pairs of the two calls both have the id 1.
TwoRedactors ==
    /\ ~serialized
    /\ \A t \in RedactThreads : redact_threads[t].pc = "returned"
    /\ redact_threads[1].self # redact_threads[2].self
    /\ \E k \in DOMAIN redact_threads[1].entity_to_id :
          \E m \in DOMAIN redact_threads[2].entity_to_id :
              /\ k # m
              /\ upper(k[1]) = upper(m[1])
              /\ redact_threads[1].entity_to_id[k] = str(1)
              /\ redact_threads[2].entity_to_id[m] = str(1)

====
